---- MODULE Spec2Model ----
(***************************************************************************)
(* ITGen backend: the Task row and TaskService (models/db_tasks.py,        *)
(* services/task_service.py), the TaskExecutionScheduler and its execution *)
(* threads (services/task_execution_scheduler.py), the cancel / status     *)
(* HTTP handlers (api/tasks.py, api/new_attack.py) and the login lockout   *)
(* (controllers/auth_controller.py, models/db_users.py).                   *)
(*                                                                         *)
(* Python None is modelled per type: NoTime for a DateTime column,        *)
(* NoExec for execution_time, NoMsg for a string, NoResult / NoMetrics    *)
(* for a JSON column.  Message strings of the source are written as ASCII  *)
(* tokens (the source's literals are Chinese text).                        *)
(***************************************************************************)
EXTENDS Integers, Sequences, FiniteSets, TLC

VARIABLES
    tasks,         \* the tasks table: task id -> row
    now,           \* datetime.utcnow() as the task code reads it
    sched,         \* the get_next_pending_task call in progress
    active_tasks,  \* TaskExecutionScheduler.active_tasks (its keys)
    lastOp,        \* history: the last call made and what it returned
    users,         \* the users table: user id -> row
    authNow,       \* datetime.utcnow() as the login code reads it, in ticks
    resp,          \* history: the last auth request and its response
    lockGhost,     \* history: consecutive failed logins and when the 5th came
    models,        \* the models table: model id -> row
    datasets,      \* the datasets table: dataset id -> row
    accounts,      \* the users table as the admin handlers read it: id -> row
    task_model,    \* Task.model_id: task id -> model id
    inflight,      \* requests between their check and their commit
    catResp,       \* history: the last model / dataset / user request
    atk,           \* the attack() call in progress and its result
    reg,           \* POST /register: the users table by name, requests, response
    report,        \* the result files read and the report generated from them
    legacy,        \* POST /attack/start: uuids handed out and the last response
    exec           \* the scheduler's loop, its threads and its in-flight entries

taskVars == <<tasks, now, sched, active_tasks, lastOp>>
authVars == <<users, authNow, resp, lockGhost>>
catVars == <<models, datasets, accounts, task_model, inflight, catResp>>
atkVars == <<atk>>
regVars == <<reg>>
repVars == <<report>>
execVars == <<exec>>
extVars == <<reg, report, legacy, exec>>
notTaskVars == <<authVars, catVars, atkVars, extVars>>
notAuthVars == <<taskVars, catVars, atkVars, extVars>>
vars == <<tasks, now, sched, active_tasks, lastOp, users, authNow, resp, lockGhost,
          models, datasets, accounts, task_model, inflight, catResp, atk, reg, report, legacy,
          exec>>

----------------------------------------------------------------------------
(* Bounds of the model *)

NumTasks == 2
MaxTime == 2
NumUsers == 1
MaxAttempts == 7
MaxAuthTicks == 4
TickMinutes == 10

TaskIds == 1..NumTasks
NoTask == 0

----------------------------------------------------------------------------
(* Task row: models/db_tasks.py *)

MaxRetries == 3
PriorityAttack == 8
PriorityFinetune == 5

TASK_STATUSES == {"pending", "queued", "running", "completed", "failed", "cancelled"}
Terminal == {"completed", "failed", "cancelled"}

NoTime == 0
NoExec == -1
NoProgress == -1
NoMsg == "None"
NoMetrics == "None"
NoResult == [present |-> FALSE, success |-> FALSE, error |-> ""]
OkResult == [present |-> TRUE, success |-> TRUE, error |-> ""]
ErrResult(reason) == [present |-> TRUE, success |-> FALSE, error |-> reason]

MsgCancelled == "task_cancelled"
MsgCompleted == "task_done"

\* A row that create_task has not inserted yet.
NoRow ==
    [exists |-> FALSE, status |-> "pending", priority |-> 0, progress |-> 0,
     progress_message |-> NoMsg, result |-> NoResult, metrics |-> NoMetrics,
     error_message |-> NoMsg, execution_time |-> NoExec, created_at |-> NoTime,
     queued_at |-> NoTime, started_at |-> NoTime, completed_at |-> NoTime,
     retry_count |-> 0]

\* Task(...) as create_task builds it: status pending, progress 0.0,
\* retry_count 0 (column default), created_at = utcnow().
NewRow(priority, t) ==
    [NoRow EXCEPT !.exists = TRUE, !.priority = priority, !.created_at = t]

\* The timestamp branch of Task.update_status (if / elif / elif).
stamp(row, status, t) ==
    IF status = "queued" /\ row.queued_at = NoTime
    THEN [row EXCEPT !.queued_at = t]
    ELSE IF status = "running" /\ row.started_at = NoTime
    THEN [row EXCEPT !.started_at = t]
    ELSE IF status \in Terminal /\ row.completed_at = NoTime
    THEN [row EXCEPT !.completed_at = t,
                     !.execution_time =
                         IF row.started_at # NoTime THEN t - row.started_at ELSE @]
    ELSE row

\* Task.update_status(status, progress, progress_message, error_message)
update_status(row, status, progress, progress_message, error_message, t) ==
    stamp([row EXCEPT
             !.status = status,
             !.progress = IF progress # NoProgress THEN progress ELSE @,
             !.progress_message =
                 IF progress_message # NoMsg THEN progress_message ELSE @,
             !.error_message = IF error_message # NoMsg THEN error_message ELSE @],
          status, t)

mark_queued(row, t) == update_status(row, "queued", NoProgress, NoMsg, NoMsg, t)

mark_running(row, t) == update_status(row, "running", NoProgress, NoMsg, NoMsg, t)

mark_completed(row, result, metrics, t) ==
    update_status([row EXCEPT !.result = result, !.metrics = metrics],
                  "completed", 100, MsgCompleted, NoMsg, t)

mark_failed(row, error_message, t) ==
    update_status(row, "failed", NoProgress, NoMsg, error_message, t)

\* can_retry with the comparison off by one.
can_retry_inclusive(row) == row.retry_count <= MaxRetries

can_retry(row) == row.retry_count < MaxRetries

\* increment_retry that counts nothing.
increment_retry_uncounted(row) == row

increment_retry(row) == [row EXCEPT !.retry_count = @ + 1]
----------------------------------------------------------------------------
(* TaskService: services/task_service.py (row-level effect of each method) *)

Reasons == {"r1"}
MsgUserCancel == "user_cancel"
ErrAttackFailed == "attack_failed"

\* `reason or <default>`: None and "" are falsy.
ReasonOrDefault(reason) == IF reason \in {NoMsg, ""} THEN MsgCancelled ELSE reason

\* TaskService.update_task_status on a row that exists.
update_task_status(row, status, progress, progress_message, result, metrics, t) ==
    LET r == update_status(row, status, progress, progress_message, NoMsg, t)
    IN  [r EXCEPT !.result = IF result # NoResult THEN result ELSE @,
                  !.metrics = IF metrics # NoMetrics THEN metrics ELSE @]

\* TaskService.mark_task_failed on a row that exists.
mark_task_failed(row, error_message, t) ==
    LET r == mark_failed(row, error_message, t)
    IN  IF can_retry(r)
        THEN [increment_retry(r) EXCEPT !.status = "pending"]
        ELSE r

\* cancel_task that leaves a finished row alone.
cancel_task_unfinished_only(row, reason, t) ==
    IF row.status \in Terminal
    THEN row
    ELSE update_status(row, "cancelled", NoProgress, ReasonOrDefault(reason), NoMsg, t)

\* TaskService.cancel_task on a row that exists.
cancel_task(row, reason, t) ==
    update_status(row, "cancelled", NoProgress, ReasonOrDefault(reason), NoMsg, t)

\* ORDER BY created_at ASC alone.
Precedes_by_creation(a, b) == tasks[a].created_at < tasks[b].created_at

\* ORDER BY priority DESC, created_at ASC ... .first(): the rows of `ids` no
\* other row of `ids` precedes (rows equal in both keys come in any order).
Precedes(a, b) ==
    \/ tasks[a].priority > tasks[b].priority
    \/ tasks[a].priority = tasks[b].priority /\ tasks[a].created_at < tasks[b].created_at

First(ids) == {a \in ids : \A b \in ids : ~Precedes(b, a)}

WithStatus(s) == {t \in TaskIds : tasks[t].exists /\ tasks[t].status = s}

----------------------------------------------------------------------------
(* State *)

IdleSched == [pc |-> "idle", task |-> NoTask, from |-> "none", stampq |-> FALSE,
              ret |-> NoTask]

\* op: the call; id: its task; arg: its reason / status argument; n: the
\* row's retry_count before the call; ret: what the call returned.
Op(name, t, arg, ret) ==
    [op |-> name, id |-> t, arg |-> arg,
     n |-> IF t \in TaskIds THEN tasks[t].retry_count ELSE 0,
     ret |-> ret]

NoOp == [op |-> "init", id |-> NoTask, arg |-> NoMsg, n |-> 0, ret |-> FALSE]

InitTasks ==
    /\ tasks = [t \in TaskIds |-> NoRow]
    /\ now = 1
    /\ sched = IdleSched
    /\ active_tasks = {}
    /\ lastOp = NoOp

\* datetime.utcnow() advances.
Tick ==
    /\ now < MaxTime
    /\ now' = now + 1
    /\ UNCHANGED <<tasks, sched, active_tasks, lastOp>>
    /\ UNCHANGED notTaskVars

SetRow(t, row) == tasks' = [tasks EXCEPT ![t] = row]

\* TaskService.create_task: ids are fresh (uuid4), taken here in order.
CreateTask(t, priority) ==
    /\ ~tasks[t].exists
    /\ \A u \in TaskIds : u < t => tasks[u].exists
    /\ SetRow(t, NewRow(priority, now))
    /\ lastOp' = Op("create_task", t, NoMsg, TRUE)
    /\ UNCHANGED <<now, sched, active_tasks>>
    /\ UNCHANGED notTaskVars

\* PUT /task/<id>/status: status and result come from the request body and
\* go to TaskService.update_task_status unchecked.
UpdateTaskStatus(t, status, result) ==
    /\ tasks[t].exists
    /\ SetRow(t, update_task_status(tasks[t], status, NoProgress, NoMsg, result,
                                    NoMetrics, now))
    /\ lastOp' = Op("update_task_status", t, status, TRUE)
    /\ UNCHANGED <<now, sched, active_tasks>>
    /\ UNCHANGED notTaskVars

\* TaskService.mark_task_running
MarkTaskRunning(t) ==
    /\ tasks[t].exists
    /\ SetRow(t, mark_running(tasks[t], now))
    /\ lastOp' = Op("mark_task_running", t, NoMsg, TRUE)
    /\ UNCHANGED <<now, sched, active_tasks>>
    /\ UNCHANGED notTaskVars

\* TaskService.mark_task_completed with a result and metrics, as
\* execute_attack_async calls it.
MarkTaskCompleted(t) ==
    /\ tasks[t].exists
    /\ SetRow(t, mark_completed(tasks[t], OkResult, "metrics", now))
    /\ lastOp' = Op("mark_task_completed", t, NoMsg, TRUE)
    /\ UNCHANGED <<now, sched, active_tasks>>
    /\ UNCHANGED notTaskVars

\* TaskService.mark_task_failed
MarkTaskFailed(t) ==
    /\ tasks[t].exists
    /\ SetRow(t, mark_task_failed(tasks[t], ErrAttackFailed, now))
    /\ lastOp' = Op("mark_task_failed", t, ErrAttackFailed, TRUE)
    /\ UNCHANGED <<now, sched, active_tasks>>
    /\ UNCHANGED notTaskVars

\* TaskService.cancel_task: False for a missing row, True otherwise.
CancelTask(t, reason) ==
    /\ IF tasks[t].exists
       THEN /\ SetRow(t, cancel_task(tasks[t], reason, now))
            /\ lastOp' = Op("cancel_task", t, reason, TRUE)
       ELSE /\ UNCHANGED tasks
            /\ lastOp' = Op("cancel_task", t, reason, FALSE)
    /\ UNCHANGED <<now, sched, active_tasks>>
    /\ UNCHANGED notTaskVars

\* The row TaskExecutionScheduler.cancel_task writes through
\* update_task_status.
scheduler_cancel(row, reason, t) ==
    update_task_status(row, "cancelled", 0, reason, ErrResult(reason), NoMetrics, t)

\* TaskExecutionScheduler.cancel_task: update_task_status raises for a
\* missing row, and the method answers False.
SchedulerCancelTask(t, reason) ==
    /\ active_tasks' = active_tasks \ {t}
    /\ IF tasks[t].exists
       THEN /\ SetRow(t, scheduler_cancel(tasks[t], reason, now))
            /\ lastOp' = Op("scheduler_cancel_task", t, reason, TRUE)
       ELSE /\ UNCHANGED tasks
            /\ lastOp' = Op("scheduler_cancel_task", t, reason, FALSE)
    /\ UNCHANGED <<now, sched>>
    /\ UNCHANGED notTaskVars

\* POST /task/<id>/cancel of api/tasks.py, the scheduler attached to the app:
\* the scheduler's cancel, then TaskService.cancel_task; 200 when either
\* succeeded.
ApiCancelTask(t, reason) ==
    /\ active_tasks' = active_tasks \ {t}
    /\ IF tasks[t].exists
       THEN /\ SetRow(t, cancel_task(scheduler_cancel(tasks[t], reason, now),
                                     reason, now))
            /\ lastOp' = Op("api_cancel_task", t, reason, TRUE)
       ELSE /\ UNCHANGED tasks
            /\ lastOp' = Op("api_cancel_task", t, reason, FALSE)
    /\ UNCHANGED <<now, sched>>
    /\ UNCHANGED notTaskVars

\* POST /task/<id>/cancel of api/new_attack.py for a caller allowed to cancel
\* the task: TaskService.cancel_task with the handler's fixed reason.
NewAttackCancelTask(t) ==
    /\ IF tasks[t].exists
       THEN /\ SetRow(t, cancel_task(tasks[t], MsgUserCancel, now))
            /\ lastOp' = Op("new_attack_cancel_task", t, MsgUserCancel, TRUE)
       ELSE /\ UNCHANGED tasks
            /\ lastOp' = Op("new_attack_cancel_task", t, MsgUserCancel, FALSE)
    /\ UNCHANGED <<now, sched, active_tasks>>
    /\ UNCHANGED notTaskVars

----------------------------------------------------------------------------
(* TaskService.get_next_pending_task, one step per database round trip.    *)
(* sched.task is the ORM object the call holds, sched.ret what it returns. *)

GnptReturn(t) ==
    /\ sched' = [sched EXCEPT !.pc = "returned", !.ret = t]
    /\ lastOp' = Op("get_next_pending_task", t, NoMsg, t # NoTask)
    /\ UNCHANGED <<tasks, now, active_tasks>>
    /\ UNCHANGED notTaskVars

GnptGoto(pc, t) ==
    /\ sched' = [sched EXCEPT !.pc = pc, !.task = t]
    /\ UNCHANGED <<tasks, now, active_tasks, lastOp>>
    /\ UNCHANGED notTaskVars

\* lines 336-338: the pending query
GnptQueryPending ==
    /\ sched.pc = "idle"
    /\ IF WithStatus("pending") # {}
       THEN \E t \in First(WithStatus("pending")) :
                /\ sched' = [IdleSched EXCEPT !.pc = "refresh369", !.task = t,
                                              !.from = "pending"]
       ELSE sched' = [IdleSched EXCEPT !.pc = "query_queued"]
    /\ UNCHANGED <<tasks, now, active_tasks, lastOp>>
    /\ UNCHANGED notTaskVars

\* lines 341-346: the queued query of the fallback
GnptQueryQueued ==
    /\ sched.pc = "query_queued"
    /\ IF WithStatus("queued") # {}
       THEN /\ \E t \in First(WithStatus("queued")) :
                    sched' = [sched EXCEPT !.pc = "refresh348", !.task = t,
                                           !.from = "queued"]
            /\ UNCHANGED <<tasks, now, active_tasks, lastOp>>
            /\ UNCHANGED notTaskVars
       ELSE GnptReturn(NoTask)

\* lines 348-356
GnptRefresh348 ==
    /\ sched.pc = "refresh348"
    /\ IF tasks[sched.task].status \notin {"pending", "queued"}
       THEN GnptReturn(NoTask)
       ELSE GnptGoto("requery359", sched.task)

\* lines 359-364
GnptRequery359 ==
    /\ sched.pc = "requery359"
    /\ IF tasks[sched.task].status \notin {"pending", "queued"}
       THEN GnptReturn(NoTask)
       ELSE GnptGoto("refresh369", sched.task)

\* lines 367-381
GnptRefresh369 ==
    /\ sched.pc = "refresh369"
    /\ IF tasks[sched.task].status \in Terminal
       THEN GnptReturn(NoTask)
       ELSE IF tasks[sched.task].status \notin {"pending", "queued"}
       THEN GnptReturn(NoTask)
       ELSE IF tasks[sched.task].status = "pending"
       THEN GnptGoto("refresh384", sched.task)
       ELSE GnptGoto("refresh403", sched.task)

\* lines 384-386: refresh, and mark_queued on the session's object
GnptRefresh384 ==
    /\ sched.pc = "refresh384"
    /\ IF tasks[sched.task].status = "pending"
       THEN /\ sched' = [sched EXCEPT !.pc = "commit387",
                                      !.stampq = (tasks[sched.task].queued_at = NoTime)]
            /\ UNCHANGED <<tasks, now, active_tasks, lastOp>>
            /\ UNCHANGED notTaskVars
       ELSE GnptReturn(NoTask)

\* The UPDATE that line 387's commit flushes: the attributes mark_queued set
\* on the object (status, and queued_at when the object had none).
flush_queued(row, stampq, t) ==
    [row EXCEPT !.status = "queued",
                !.queued_at = IF stampq THEN t ELSE @]

\* line 387
GnptCommit387 ==
    /\ sched.pc = "commit387"
    /\ SetRow(sched.task, flush_queued(tasks[sched.task], sched.stampq, now))
    /\ sched' = [sched EXCEPT !.pc = "refresh403"]
    /\ lastOp' = Op("mark_queued", sched.task, NoMsg, TRUE)
    /\ UNCHANGED <<now, active_tasks>>
    /\ UNCHANGED notTaskVars

\* lines 403-419
GnptRefresh403 ==
    /\ sched.pc = "refresh403"
    /\ IF tasks[sched.task].status \in Terminal
       THEN GnptReturn(NoTask)
       ELSE IF tasks[sched.task].status \notin {"pending", "queued"}
       THEN GnptReturn(NoTask)
       ELSE GnptReturn(sched.task)

GetNextPendingTask ==
    \/ GnptQueryPending
    \/ GnptQueryQueued
    \/ GnptRefresh348
    \/ GnptRequery359
    \/ GnptRefresh369
    \/ GnptRefresh384
    \/ GnptCommit387
    \/ GnptRefresh403

\* The caller takes the returned row.
GnptTaken ==
    /\ sched.pc = "returned"
    /\ sched' = IdleSched
    /\ UNCHANGED <<tasks, now, active_tasks, lastOp>>
    /\ UNCHANGED notTaskVars
----------------------------------------------------------------------------
(* Login: controllers/auth_controller.py, models/db_users.py,              *)
(* controllers/admin_controller.py.  Times are minutes.                    *)

UserIds == 1..NumUsers
NoUser == 0
LockThreshold == 5
LockMinutes == 30
Passwords == {"pw", "reset", "bad"}

UtcNow == authNow * TickMinutes

NewUser == [status |-> "active", login_attempts |-> 0, locked_until |-> NoTime,
            password |-> "pw"]

is_active(user) == user.status = "active"

check_password(user, password) == user.password = password

increment_login_attempts(user) == [user EXCEPT !.login_attempts = @ + 1]

reset_login_attempts(user) ==
    [user EXCEPT !.login_attempts = 0, !.locked_until = NoTime]

\* User.lock_account: db_users.py imports the class (`from datetime import
\* datetime`), so `datetime.timedelta` raises AttributeError while the right
\* hand side is evaluated and locked_until is not assigned.
lock_account(user, t) == [raised |-> TRUE, user |-> user]

is_account_locked(user, t) == user.locked_until # NoTime /\ t < user.locked_until

Response(u, code, msg) ==
    [op |-> "login", user |-> u, code |-> code, msg |-> msg, at |-> UtcNow,
     locked |-> /\ u \in UserIds
                /\ lockGhost[u].lockedAt # NoTime
                /\ UtcNow < lockGhost[u].lockedAt + LockMinutes,
     nth |-> 0]

NoResponse == [op |-> "none", user |-> NoUser, code |-> 0, msg |-> "", at |-> 0,
               locked |-> FALSE, nth |-> 0]

InitAuth ==
    /\ users = [u \in UserIds |-> NewUser]
    /\ authNow = 1
    /\ resp = NoResponse
    /\ lockGhost = [u \in UserIds |-> [streak |-> 0, lockedAt |-> NoTime]]

AuthTick ==
    /\ authNow < MaxAuthTicks
    /\ authNow' = authNow + 1
    /\ UNCHANGED <<users, resp, lockGhost>>
    /\ UNCHANGED notAuthVars

\* login, lines 58-63: no user has the name or email
LoginUnknown ==
    /\ resp' = Response(NoUser, 401, "user_not_found")
    /\ UNCHANGED <<users, authNow, lockGhost>>
    /\ UNCHANGED notAuthVars

\* login, lines 65-66
LoginInactive(u, password) ==
    /\ ~is_active(users[u])
    /\ resp' = Response(u, 401, "account_disabled")
    /\ UNCHANGED <<users, authNow, lockGhost>>
    /\ UNCHANGED notAuthVars

\* login, lines 68-77: the counter is committed (line 70) before the
\* threshold is looked at; an exception of lock_account reaches the handler's
\* `except Exception` (lines 93-95), which answers 500.
LoginBadPassword(u, password) ==
    /\ is_active(users[u])
    /\ ~check_password(users[u], password)
    /\ users[u].login_attempts < MaxAttempts
    /\ LET counted == increment_login_attempts(users[u])
           locked == lock_account(counted, UtcNow)
           streak == lockGhost[u].streak + 1
       IN  /\ users' = [users EXCEPT ![u] =
                            IF counted.login_attempts >= LockThreshold
                            THEN locked.user ELSE counted]
           /\ resp' = [Response(u,
                          IF counted.login_attempts < LockThreshold THEN 401
                          ELSE IF locked.raised THEN 500 ELSE 401,
                          IF counted.login_attempts < LockThreshold
                          THEN "bad_credentials"
                          ELSE IF locked.raised THEN "login_failed_retry_later"
                          ELSE "locked_30_minutes")
                       EXCEPT !.nth = streak]
           /\ lockGhost' = [lockGhost EXCEPT ![u] =
                               [streak |-> streak,
                                lockedAt |-> IF streak = LockThreshold
                                             THEN UtcNow ELSE @.lockedAt]]
    /\ UNCHANGED authNow
    /\ UNCHANGED notAuthVars

\* login, lines 79-91
LoginGoodPassword(u, password) ==
    /\ is_active(users[u])
    /\ check_password(users[u], password)
    /\ users' = [users EXCEPT ![u] = reset_login_attempts(@)]
    /\ resp' = Response(u, 200, "login_ok")
    /\ lockGhost' = [lockGhost EXCEPT ![u].streak = 0]
    /\ UNCHANGED authNow
    /\ UNCHANGED notAuthVars

Login ==
    \/ LoginUnknown
    \/ \E u \in UserIds, pw \in Passwords : LoginInactive(u, pw)
    \/ \E u \in UserIds, pw \in Passwords : LoginBadPassword(u, pw)
    \/ \E u \in UserIds, pw \in Passwords : LoginGoodPassword(u, pw)

\* admin reset_user_password: new password, reset_login_attempts
ResetUserPassword(u) ==
    /\ users' = [users EXCEPT ![u] = reset_login_attempts([@ EXCEPT !.password = "reset"])]
    /\ resp' = [NoResponse EXCEPT !.op = "reset_user_password", !.user = u,
                                  !.code = 200, !.at = UtcNow]
    /\ lockGhost' = [lockGhost EXCEPT ![u] = [streak |-> 0, lockedAt |-> NoTime]]
    /\ UNCHANGED authNow
    /\ UNCHANGED notAuthVars

\* admin update_user with a status field
UpdateUserStatus(u, status) ==
    /\ users' = [users EXCEPT ![u].status = status]
    /\ resp' = [NoResponse EXCEPT !.op = "update_user", !.user = u, !.code = 200,
                                  !.at = UtcNow]
    /\ UNCHANGED <<authNow, lockGhost>>
    /\ UNCHANGED notAuthVars

NextAuth ==
    \/ AuthTick
    \/ Login
    \/ \E u \in UserIds : ResetUserPassword(u)
    \/ \E u \in UserIds, s \in {"active", "inactive"} : UpdateUserStatus(u, s)

----------------------------------------------------------------------------
(* Models, datasets and users: controllers/admin_controller.py,            *)
(* services/model_service.py, services/dataset_service.py, api/models.py,  *)
(* api/datasets.py.                                                        *)

NumModels == 2
NumDatasets == 2
NumAccounts == 3
NumClients == 2

ModelIds == 1..NumModels
DatasetIds == 1..NumDatasets
AccountIds == 1..NumAccounts
ClientIds == 1..NumClients
NoModelId == 0
Anonymous == 0
SuperAdminId == 1
Names == {"a", "b"}
Sources == {"official", "user"}

\* users rows as token_required and the admin handlers read them.  `used`
\* marks an id the autoincrement column has handed out.
NoAccount == [exists |-> FALSE, used |-> FALSE, role |-> "user"]
NewAccount(role) == [exists |-> TRUE, used |-> TRUE, role |-> role]

is_admin(account) == account.role = "admin"

\* token_required: the token's user is looked up; a caller without a row is
\* answered 401 before the handler runs.
Authenticated(caller) == caller \in AccountIds /\ accounts[caller].exists

NoModel ==
    [exists |-> FALSE, used |-> FALSE, model_name |-> NoMsg, model_source |-> NoMsg,
     is_predefined |-> FALSE, user_id |-> NoUser, mlm_model_path |-> NoMsg]

\* Model(...) as create_model, add_model and save_uploaded_model_to_database
\* build it: is_predefined False, mlm_model_path None.
NewModel(name, source, owner) ==
    [NoModel EXCEPT !.exists = TRUE, !.used = TRUE, !.model_name = name,
                    !.model_source = source, !.user_id = owner]

NoDataset ==
    [exists |-> FALSE, used |-> FALSE, dataset_name |-> NoMsg, source |-> NoMsg,
     is_predefined |-> FALSE, user_id |-> NoUser]

NewDataset(name, source, owner) ==
    [NoDataset EXCEPT !.exists = TRUE, !.used = TRUE, !.dataset_name = name,
                      !.source = source, !.user_id = owner]

\* The autoincrement primary key: the lowest id never handed out.
FreeIds(table, ids) == {i \in ids : ~table[i].used}
NextId(table, ids) == CHOOSE i \in FreeIds(table, ids) : \A j \in FreeIds(table, ids) : i <= j

\* Model.query.filter_by(model_name=name).first() is not None
ModelNamed(name) == {m \in ModelIds : models[m].exists /\ models[m].model_name = name}
DatasetNamed(name) ==
    {d \in DatasetIds : datasets[d].exists /\ datasets[d].dataset_name = name}

\* Task.query.filter_by(model_id=m).filter(status in pending/queued/running)
ActiveStatuses == {"pending", "queued", "running"}
ActiveTasksOf(m) ==
    {t \in TaskIds : tasks[t].exists /\ task_model[t] = m
                     /\ tasks[t].status \in ActiveStatuses}
TasksOf(m) == {t \in TaskIds : tasks[t].exists /\ task_model[t] = m}

\* A request between its check and its commit.
IdleReq ==
    [pc |-> "idle", op |-> "none", caller |-> Anonymous, name |-> NoMsg,
     source |-> NoMsg, target |-> NoModelId, field |-> NoMsg, value |-> NoMsg,
     extract |-> FALSE]

\* op: the handler; caller: the token's user (0 for a handler without
\* token_required); target: the row id of the URL or of the new row; code:
\* the HTTP status; active: the model had pending / queued / running tasks
\* when the request was made.
CatResponse(op, caller, target, code) ==
    [op |-> op, caller |-> caller, target |-> target, code |-> code,
     active |-> /\ target \in ModelIds
                /\ models[target].exists
                /\ ActiveTasksOf(target) # {}]

NoCatResponse ==
    [op |-> "none", caller |-> Anonymous, target |-> NoModelId,
     code |-> 0, active |-> FALSE]

InitCat ==
    /\ models = [m \in ModelIds |-> NoModel]
    /\ datasets = [d \in DatasetIds |-> NoDataset]
    /\ accounts = [u \in AccountIds |->
                      IF u = SuperAdminId THEN NewAccount("admin")
                      ELSE IF u = 2 THEN NewAccount("user")
                      ELSE NoAccount]
    /\ task_model = [t \in TaskIds |-> NoModelId]
    /\ inflight = [c \in ClientIds |-> IdleReq]
    /\ catResp = NoCatResponse


\* The request of client c ends with `code`, nothing written.
Answer(c, op, caller, target, code) ==
    /\ catResp' = CatResponse(op, caller, target, code)
    /\ inflight' = [inflight EXCEPT ![c] = IdleReq]

Rejected(c, op, caller, target, code) ==
    /\ Answer(c, op, caller, target, code)
    /\ UNCHANGED <<models, datasets, accounts, task_model>>
    /\ UNCHANGED <<taskVars, authVars, atkVars, extVars>>

\* The request of client c passed its checks and holds `req` until it commits.
Proceed(c, req) ==
    /\ inflight' = [inflight EXCEPT ![c] = req]
    /\ UNCHANGED <<models, datasets, accounts, task_model, catResp>>
    /\ UNCHANGED <<taskVars, authVars, atkVars, extVars>>

----------------------------------------------------------------------------
(* Users: admin_controller.create_user, update_user, delete_user *)

\* delete_user without the own-account check.
delete_user_code_without_self_check(caller, target) ==
    IF ~Authenticated(caller) THEN 401
    ELSE IF ~is_admin(accounts[caller]) THEN 403
    ELSE IF target = SuperAdminId THEN 403
    ELSE IF ~accounts[target].exists THEN 404
    ELSE 200

\* delete_user, lines 164-183: admin_required, then the id-1 check, the
\* lookup, the own-account check.
delete_user_code(caller, target) ==
    IF ~Authenticated(caller) THEN 401
    ELSE IF ~is_admin(accounts[caller]) THEN 403
    ELSE IF target = SuperAdminId THEN 403
    ELSE IF ~accounts[target].exists THEN 404
    ELSE IF target = caller THEN 403
    ELSE 200

DeleteUser(c, caller, target) ==
    /\ inflight[c].pc = "idle"
    /\ LET code == delete_user_code(caller, target)
       IN  /\ Answer(c, "delete_user", caller, target, code)
           /\ accounts' = IF code = 200
                          THEN [accounts EXCEPT ![target].exists = FALSE]
                          ELSE accounts
    /\ UNCHANGED <<models, datasets, task_model>>
    /\ UNCHANGED <<taskVars, authVars, atkVars, extVars>>

\* create_user (admin_required): role comes from the request body.
CreateUser(c, caller, role) ==
    /\ inflight[c].pc = "idle"
    /\ FreeIds(accounts, AccountIds) # {}
    /\ LET code == IF ~Authenticated(caller) THEN 401
                   ELSE IF ~is_admin(accounts[caller]) THEN 403
                   ELSE 201
           id == NextId(accounts, AccountIds)
       IN  /\ Answer(c, "create_user", caller, IF code = 201 THEN id ELSE 0, code)
           /\ accounts' = IF code = 201
                          THEN [accounts EXCEPT ![id] = NewAccount(role)]
                          ELSE accounts
    /\ UNCHANGED <<models, datasets, task_model>>
    /\ UNCHANGED <<taskVars, authVars, atkVars, extVars>>

\* update_user (admin_required) with a role field: 'role' is an allowed field
\* for every target.
UpdateUserRole(c, caller, target, role) ==
    /\ inflight[c].pc = "idle"
    /\ LET code == IF ~Authenticated(caller) THEN 401
                   ELSE IF ~is_admin(accounts[caller]) THEN 403
                   ELSE IF ~accounts[target].exists THEN 404
                   ELSE 200
       IN  /\ Answer(c, "update_user", caller, target, code)
           /\ accounts' = IF code = 200
                          THEN [accounts EXCEPT ![target].role = role]
                          ELSE accounts
    /\ UNCHANGED <<models, datasets, task_model>>
    /\ UNCHANGED <<taskVars, authVars, atkVars, extVars>>

----------------------------------------------------------------------------
(* Models: admin_controller.create_model / update_model / delete_model,    *)
(* ModelService.add_model / delete_model / upload_mlm_model and the        *)
(* upload handler of api/models.py.  A handler that queries and then       *)
(* commits takes one step for each.                                        *)

\* What upload_model_files / upload_dataset_files return.
UploadResults == {[success |-> TRUE], [success |-> FALSE]}

\* An upload handler that goes on whatever the extraction reported.
upload_never_rejected(result) == FALSE

\* `if not upload_result['success']: return jsonify(upload_result), 400`
upload_rejected(result) == ~result.success

\* The row's user_id: current_user.id in create_model, None elsewhere.
OwnerOf(req) == IF req.op = "create_model" THEN req.caller ELSE NoUser

\* admin create_model, lines 318-335
BeginCreateModel(c, caller, name) ==
    /\ inflight[c].pc = "idle"
    /\ IF ~Authenticated(caller)
       THEN Rejected(c, "create_model", caller, NoModelId, 401)
       ELSE IF ModelNamed(name) # {}
       THEN Rejected(c, "create_model", caller, NoModelId, 409)
       ELSE Proceed(c, [IdleReq EXCEPT !.pc = "insert", !.op = "create_model",
                                       !.caller = caller, !.name = name,
                                       !.source = "user"])

\* ModelService.add_model, lines 54-60 (POST /models of api/models.py)
BeginAddModel(c, name, source) ==
    /\ inflight[c].pc = "idle"
    /\ IF ModelNamed(name) # {}
       THEN Rejected(c, "add_model", Anonymous, NoModelId, 400)
       ELSE Proceed(c, [IdleReq EXCEPT !.pc = "insert", !.op = "add_model",
                                       !.name = name, !.source = source])

\* upload_model of api/models.py, lines 129-157: the archive is extracted
BeginUploadModel(c, name, result) ==
    /\ inflight[c].pc = "idle"
    /\ IF upload_rejected(result)
       THEN Rejected(c, "upload_model", Anonymous, NoModelId, 400)
       ELSE Proceed(c, [IdleReq EXCEPT !.pc = "save", !.op = "upload_model",
                                       !.name = name, !.source = "user",
                                       !.extract = result.success])

\* save_uploaded_model_to_database, lines 385-387
SaveUploadedModel(c) ==
    /\ inflight[c].pc = "save"
    /\ inflight[c].op = "upload_model"
    /\ IF ModelNamed(inflight[c].name) # {}
       THEN Rejected(c, "upload_model", Anonymous, NoModelId, 400)
       ELSE Proceed(c, [inflight[c] EXCEPT !.pc = "insert"])

\* db.session.add(...); db.session.commit() of the three handlers
InsertModel(c) ==
    /\ inflight[c].pc = "insert"
    /\ inflight[c].op \in {"create_model", "add_model", "upload_model"}
    /\ FreeIds(models, ModelIds) # {}
    /\ LET req == inflight[c]
           id == NextId(models, ModelIds)
       IN  /\ models' = [models EXCEPT ![id] =
                            NewModel(req.name, req.source, OwnerOf(req))]
           /\ Answer(c, req.op, req.caller, id, 201)
    /\ UNCHANGED <<datasets, accounts, task_model>>
    /\ UNCHANGED <<taskVars, authVars, atkVars, extVars>>

\* The fields update_model may set for this caller (allowed_fields).
allowed_fields(caller) ==
    {"model_name", "model_source"}
        \cup (IF is_admin(accounts[caller]) THEN {"is_predefined"} ELSE {})

\* setattr(model, field, data[field])
set_field(row, field, value) ==
    CASE field = "model_name" -> [row EXCEPT !.model_name = value]
      [] field = "model_source" -> [row EXCEPT !.model_source = value]
      [] field = "is_predefined" -> [row EXCEPT !.is_predefined = (value = "true")]

\* The values a request body can carry for a field.
FieldValues(field) ==
    CASE field = "model_name" -> Names
      [] field = "model_source" -> Sources
      [] field = "is_predefined" -> {"true", "false"}

\* update_model, lines 370-407, for a body with the one key `field`; a key
\* that is not allowed is skipped and the request still answers 200.
BeginUpdateModel(c, caller, m, field, value) ==
    /\ inflight[c].pc = "idle"
    /\ IF ~Authenticated(caller)
       THEN Rejected(c, "update_model", caller, m, 401)
       ELSE IF ~models[m].exists
       THEN Rejected(c, "update_model", caller, m, 404)
       ELSE IF ~is_admin(accounts[caller])
               /\ (models[m].user_id # caller \/ models[m].is_predefined)
       THEN Rejected(c, "update_model", caller, m, 403)
       ELSE IF field \notin allowed_fields(caller)
       THEN Rejected(c, "update_model", caller, m, 200)
       ELSE IF field = "model_name" /\ value # models[m].model_name
               /\ ModelNamed(value) # {}
       THEN Rejected(c, "update_model", caller, m, 409)
       ELSE Proceed(c, [IdleReq EXCEPT !.pc = "write", !.op = "update_model",
                                       !.caller = caller, !.target = m,
                                       !.field = field, !.value = value])

\* update_model, line 409: the commit flushes the attribute that was set; a
\* row deleted meanwhile makes the commit raise, and the handler answers 500.
WriteModel(c) ==
    /\ inflight[c].pc = "write"
    /\ inflight[c].op = "update_model"
    /\ LET req == inflight[c]
       IN  IF models[req.target].exists
           THEN /\ models' = [models EXCEPT ![req.target] =
                                 set_field(@, req.field, req.value)]
                /\ Answer(c, "update_model", req.caller, req.target, 200)
           ELSE /\ UNCHANGED models
                /\ Answer(c, "update_model", req.caller, req.target, 500)
    /\ UNCHANGED <<datasets, accounts, task_model>>
    /\ UNCHANGED <<taskVars, authVars, atkVars, extVars>>

\* DELETE of the row: with foreign keys enforced by the database (`fk`) a
\* model that tasks.model_id still references cannot be deleted.
DeleteRefused(m, fk) == fk /\ TasksOf(m) # {}

\* admin delete_model, lines 422-461
admin_delete_model_code(caller, m, fk) ==
    IF ~Authenticated(caller) THEN 401
    ELSE IF ~models[m].exists THEN 404
    ELSE IF ~is_admin(accounts[caller])
            /\ (models[m].user_id # caller \/ models[m].is_predefined) THEN 403
    ELSE IF ActiveTasksOf(m) # {} THEN 409
    ELSE IF DeleteRefused(m, fk) THEN 500
    ELSE 200

\* ModelService.delete_model through DELETE /models/<id> of api/models.py:
\* no token, no look at the tasks table; ValueError is answered 500.
api_delete_model_code(m, fk) ==
    IF ~models[m].exists THEN 404
    ELSE IF models[m].is_predefined THEN 500
    ELSE IF DeleteRefused(m, fk) THEN 500
    ELSE 200

DeleteModelRow(c, op, caller, m, code) ==
    /\ inflight[c].pc = "idle"
    /\ Answer(c, op, caller, m, code)
    /\ models' = IF code = 200
                 THEN [models EXCEPT ![m] = [NoModel EXCEPT !.used = TRUE]]
                 ELSE models
    /\ UNCHANGED <<datasets, accounts, task_model>>
    /\ UNCHANGED <<taskVars, authVars, atkVars, extVars>>

AdminDeleteModel(c, caller, m, fk) ==
    DeleteModelRow(c, "admin_delete_model", caller, m,
                   admin_delete_model_code(caller, m, fk))

ApiDeleteModel(c, m, fk) ==
    DeleteModelRow(c, "api_delete_model", Anonymous, m, api_delete_model_code(m, fk))

\* POST /models/upload/mlm: ModelService.upload_mlm_model looks the model up
\* by name, extracts the archive and sets mlm_model_path.
UploadMlmModel(c, name, result) ==
    /\ inflight[c].pc = "idle"
    /\ IF ModelNamed(name) = {} \/ ~result.success
       THEN Rejected(c, "upload_mlm_model", Anonymous, NoModelId, 400)
       ELSE \E m \in ModelNamed(name) :
               /\ models' = [models EXCEPT ![m].mlm_model_path = "mlm"]
               /\ Answer(c, "upload_mlm_model", Anonymous, m, 201)
               /\ UNCHANGED <<datasets, accounts, task_model>>
               /\ UNCHANGED <<taskVars, authVars, atkVars, extVars>>

\* create_task with model_id, as the attack handlers call it.
CreateTaskForModel(t, m) ==
    /\ ~tasks[t].exists
    /\ \A u \in TaskIds : u < t => tasks[u].exists
    /\ models[m].exists
    /\ SetRow(t, NewRow(PriorityAttack, now))
    /\ task_model' = [task_model EXCEPT ![t] = m]
    /\ lastOp' = Op("create_task", t, NoMsg, TRUE)
    /\ UNCHANGED <<now, sched, active_tasks>>
    /\ UNCHANGED <<models, datasets, accounts, inflight, catResp>>
    /\ UNCHANGED <<authVars, atkVars, extVars>>

----------------------------------------------------------------------------
(* Datasets: upload_dataset of api/datasets.py and                         *)
(* DatasetService.save_uploaded_dataset_to_database                        *)

\* upload_dataset, lines 117-152
BeginUploadDataset(c, name, result) ==
    /\ inflight[c].pc = "idle"
    /\ IF upload_rejected(result)
       THEN Rejected(c, "upload_dataset", Anonymous, NoModelId, 400)
       ELSE Proceed(c, [IdleReq EXCEPT !.pc = "save", !.op = "upload_dataset",
                                       !.name = name, !.source = "user",
                                       !.extract = result.success])

\* save_uploaded_dataset_to_database, lines 344-346
SaveUploadedDataset(c) ==
    /\ inflight[c].pc = "save"
    /\ inflight[c].op = "upload_dataset"
    /\ IF DatasetNamed(inflight[c].name) # {}
       THEN Rejected(c, "upload_dataset", Anonymous, NoModelId, 400)
       ELSE Proceed(c, [inflight[c] EXCEPT !.pc = "insert"])

\* save_uploaded_dataset_to_database, lines 348-364
InsertDataset(c) ==
    /\ inflight[c].pc = "insert"
    /\ inflight[c].op = "upload_dataset"
    /\ FreeIds(datasets, DatasetIds) # {}
    /\ LET req == inflight[c]
           id == NextId(datasets, DatasetIds)
       IN  /\ datasets' = [datasets EXCEPT ![id] =
                              NewDataset(req.name, req.source, NoUser)]
           /\ Answer(c, "upload_dataset", Anonymous, id, 201)
    /\ UNCHANGED <<models, accounts, task_model>>
    /\ UNCHANGED <<taskVars, authVars, atkVars, extVars>>

----------------------------------------------------------------------------
(* TaskService.cleanup_old_tasks (POST /tasks/cleanup).  `days` is counted  *)
(* in ticks of `now`.                                                      *)

MaxDays == 1

\* create_task gives a row the priority of its type's TASK_TYPES entry.
TaskTypeOf(row) == IF row.priority = PriorityAttack THEN "attack" ELSE "finetune"

\* The rows the query of lines 602-619 selects.
tasks_to_delete(days, task_type, status, keep_failed) ==
    {t \in TaskIds :
        /\ tasks[t].exists
        /\ tasks[t].created_at < now - days
        /\ (task_type # NoMsg => TaskTypeOf(tasks[t]) = task_type)
        /\ IF status # NoMsg THEN tasks[t].status = status
           ELSE IF keep_failed THEN tasks[t].status \in {"completed", "cancelled"}
           ELSE tasks[t].status \in {"completed", "failed", "cancelled"}}

\* lastOp keeps the arguments: arg the status filter, n the days, ret
\* keep_failed.
CleanupOldTasks(days, task_type, status, keep_failed) ==
    /\ sched.pc = "idle"
    /\ tasks' = [t \in TaskIds |->
                    IF t \in tasks_to_delete(days, task_type, status, keep_failed)
                    THEN NoRow ELSE tasks[t]]
    /\ lastOp' = [op |-> "cleanup_old_tasks", id |-> NoTask, arg |-> status,
                  n |-> days, ret |-> keep_failed]
    /\ UNCHANGED <<now, sched, active_tasks>>
    /\ UNCHANGED notTaskVars

----------------------------------------------------------------------------
(* Attackers: attacks/itgen, alert, beam, mhm, rnns attacker.py, and        *)
(* AttackService.attack (services/attack_service.py).  atk is the call in   *)
(* progress: its arguments, self.query_times, the number of                 *)
(* model.get_results calls made so far and the dict returned.  A result     *)
(* dict is a record whose DOMAIN is the dict's key set; None is NoMsg.      *)

MaxElapsed == 1

Labels == {0, 1}
Codes == {"", "code"}
SearchMethods == {"itgen", "alert", "beam"}
StubMethods == {"mhm", "rnns"}
ATTACK_REGISTRY == SearchMethods \cup StubMethods \cup {"wir"}
Elapsed == 0..MaxElapsed

NoAttackResult == [pending |-> TRUE]

IdleAttack ==
    [pc |-> "idle", via |-> "attacker", method |-> "itgen", code1 |-> "",
     true_label |-> 0, substitutes |-> FALSE, checked |-> FALSE,
     predicted |-> 0, query_times |-> 0, model_calls |-> 0,
     result |-> NoAttackResult]

InitAtk == atk = IdleAttack

\* Mutant of label_mismatch: the prediction check never fires.
label_never_mismatch(predicted_label, true_label) == FALSE

\* `if predicted_label != true_label` (itgen 122, alert 125, beam 114).
label_mismatch(predicted_label, true_label) == predicted_label # true_label

\* The dict returned when the model's prediction is not the true label.
mismatch_result(code1) ==
    [success |-> FALSE, original_code |-> code1, adversarial_code |-> NoMsg,
     replaced_identifiers |-> NoMsg, query_times |-> 0, time_cost |-> 0,
     error |-> "prediction_differs_from_true_label"]

\* The dict returned when no substitutes were supplied.
no_substitutes_result(code1) ==
    [success |-> FALSE, original_code |-> code1, adversarial_code |-> NoMsg,
     replaced_identifiers |-> NoMsg, query_times |-> 0, time_cost |-> 0,
     error |-> "missing_substitutes"]

\* Mutant of exception_result: the handler's dict without its error key.
exception_result_without_error(code1, query_times, elapsed, e) ==
    [success |-> FALSE, original_code |-> code1, adversarial_code |-> NoMsg,
     replaced_identifiers |-> NoMsg, query_times |-> query_times,
     time_cost |-> elapsed]

\* The dict of the `except Exception as e` handler of attack().
exception_result(code1, query_times, elapsed, e) ==
    [success |-> FALSE, original_code |-> code1, adversarial_code |-> NoMsg,
     replaced_identifiers |-> NoMsg, query_times |-> query_times,
     time_cost |-> elapsed, error |-> e]

\* MHMAttacker.attack and RNNSAttacker.attack.
stub_result(method, code1) ==
    [success |-> FALSE, original_code |-> code1, adversarial_code |-> NoMsg,
     replaced_identifiers |-> NoMsg, query_times |-> 0, time_cost |-> 0,
     error |-> IF method = "mhm" THEN "mhm_under_development"
               ELSE "rnns_under_development"]

\* ALERTAttacker.ga_attack down to genetic_algorithm_attack.
ga_attack(code_1, true_label, orig_label, has_variable_names) ==
    [adv_program |-> code_1,
     is_success |-> IF true_label # orig_label THEN -1
                    ELSE IF ~has_variable_names THEN -2 ELSE 0,
     replaced_words |-> {}]

\* BeamAttacker.beam_attack.
beam_attack(code_1, true_label, orig_label) ==
    [adv_program |-> code_1,
     is_success |-> IF true_label # orig_label THEN -1 ELSE 0,
     replaced_words |-> {}]

\* Mutant of adversarial_of: the search's program is returned as it is.
adversarial_unfiltered(adv_program, code1) == adv_program

\* `result['adv_program'] if result['adv_program'] != code1 else None`
adversarial_of(adv_program, code1) ==
    IF adv_program # code1 THEN adv_program ELSE NoMsg

\* attack_result of ALERTAttacker.attack (154-167) and BeamAttacker.attack
\* (142-154); ALERT adds the key task_type.
attack_result(method, code1, result, query_times, elapsed) ==
    LET dict == [success |-> result.is_success = 1,
                 original_code |-> code1,
                 adversarial_code |-> adversarial_of(result.adv_program, code1),
                 replaced_identifiers |->
                     IF result.replaced_words # {} THEN result.replaced_words
                     ELSE NoMsg,
                 query_times |-> query_times,
                 time_cost |-> elapsed,
                 error |-> NoMsg]
    IN  IF method = "alert"
        THEN [k \in DOMAIN dict \cup {"task_type"} |->
                 IF k = "task_type" THEN "clone-detection" ELSE dict[k]]
        ELSE dict

\* attack() returns `result`: to its caller, or to AttackService.attack.
Return(result) ==
    [atk EXCEPT !.pc = IF atk.via = "service" THEN "returned" ELSE "done",
                !.result = result]

\* The state at the entry of attacker.attack(code_data, true_label,
\* substitutes): start_time and query_times are reset; the two stubs return
\* at once.
Entered(via, method, code1, true_label, substitutes) ==
    LET call == [pc |-> "called", via |-> via, method |-> method,
                 code1 |-> code1, true_label |-> true_label,
                 substitutes |-> substitutes, checked |-> FALSE,
                 predicted |-> 0, query_times |-> 0, model_calls |-> 0,
                 result |-> NoAttackResult]
    IN  IF method \in StubMethods
        THEN [call EXCEPT !.pc = IF via = "service" THEN "returned" ELSE "done",
                          !.result = stub_result(method, code1)]
        ELSE call

\* A direct call of attack() of one of the five attackers.
Attack(method, code1, true_label, substitutes) ==
    /\ atk.pc \in {"idle", "done"}
    /\ atk' = Entered("attacker", method, code1, true_label, substitutes)
    /\ UNCHANGED <<taskVars, authVars, catVars, extVars>>

\* attack() of ITGen, ALERT and Beam up to the substitutes check: code1 is
\* validated, the example encoded and the model asked once.  `raises`: the
\* tokenizer, the encoding or the model raised.
Predict(raises, predicted_label, elapsed) ==
    /\ atk.pc = "called"
    /\ atk' =
        IF atk.code1 = ""
        THEN Return(exception_result(atk.code1, atk.query_times, elapsed,
                                     "code1_empty"))
        ELSE IF raises
        THEN Return(exception_result(atk.code1, atk.query_times, elapsed,
                                     "model_error"))
        ELSE LET asked == [atk EXCEPT !.checked = TRUE,
                                      !.predicted = predicted_label,
                                      !.model_calls = @ + 1]
             IN  IF label_mismatch(predicted_label, atk.true_label)
                 THEN [asked EXCEPT
                          !.pc = IF atk.via = "service" THEN "returned" ELSE "done",
                          !.result = mismatch_result(atk.code1)]
                 ELSE IF ~atk.substitutes
                 THEN [asked EXCEPT
                          !.pc = IF atk.via = "service" THEN "returned" ELSE "done",
                          !.result = no_substitutes_result(atk.code1)]
                 ELSE [asked EXCEPT !.pc = "searching"]
    /\ UNCHANGED <<taskVars, authVars, catVars, extVars>>

\* The search.  ITGenAttacker.attack calls self.itgen_attack, which no class
\* defines: AttributeError, caught by the handler.  ga_attack and beam_attack
\* ask the model again (orig_label) and make no counted query.
Search(raises, orig_label, has_variable_names, elapsed) ==
    /\ atk.pc = "searching"
    /\ atk' =
        IF atk.method = "itgen"
        THEN Return(exception_result(atk.code1, atk.query_times, elapsed,
                                     "no_attribute_itgen_attack"))
        ELSE IF raises
        THEN Return(exception_result(atk.code1, atk.query_times, elapsed,
                                     "model_error"))
        ELSE LET result == IF atk.method = "alert"
                           THEN ga_attack(atk.code1, atk.true_label, orig_label,
                                          has_variable_names)
                           ELSE beam_attack(atk.code1, atk.true_label, orig_label)
                 asked == [atk EXCEPT !.model_calls = @ + 1]
             IN  [asked EXCEPT
                     !.pc = IF atk.via = "service" THEN "returned" ELSE "done",
                     !.result = attack_result(atk.method, atk.code1, result,
                                              atk.query_times, elapsed)]
    /\ UNCHANGED <<taskVars, authVars, catVars, extVars>>

\* The dict of AttackService.attack's handler (941-953) and of its empty
\* substitutes return (898-908).
service_failure_result(code1, elapsed, e) ==
    [success |-> FALSE, original_code |-> code1, adversarial_code |-> NoMsg,
     replaced_identifiers |-> NoMsg, query_times |-> 0, time_cost |-> elapsed,
     error |-> e]

\* importlib.import_module of the attacker's module: attacks/wir does not
\* exist, and attacks/itgen/attacker.py uses Path (line 18) before it imports
\* it (line 42).
import_fails(method) == method \notin ATTACK_REGISTRY \/ method \in {"wir", "itgen"}

\* AttackService.attack, steps 1 to 3 and the call of attacker.attack.
\* `loaded`: _load_model returned; `created`: the attacker's constructor
\* returned.
ServiceAttack(method, code1, true_label, substitutes, loaded, created, elapsed) ==
    /\ atk.pc \in {"idle", "done"}
    /\ LET failed(e) == [IdleAttack EXCEPT
                            !.pc = "done", !.via = "service", !.method = method,
                            !.code1 = code1, !.true_label = true_label,
                            !.substitutes = substitutes,
                            !.result = service_failure_result(code1, elapsed, e)]
       IN  atk' = IF code1 = "" THEN failed("code1_empty")
                  ELSE IF ~loaded THEN failed("load_model_failed")
                  ELSE IF import_fails(method) \/ ~created
                       THEN failed("create_attacker_failed")
                  ELSE IF ~substitutes THEN failed("substitutes_empty")
                  ELSE Entered("service", method, code1, true_label, substitutes)
    /\ UNCHANGED <<taskVars, authVars, catVars, extVars>>

\* AttackService.attack, step 4 after attacker.attack returned: time_cost is
\* overwritten and the dict returned.
ServiceReturn(elapsed) ==
    /\ atk.pc = "returned"
    /\ atk' = [atk EXCEPT !.pc = "done", !.result.time_cost = elapsed]
    /\ UNCHANGED <<taskVars, authVars, catVars, extVars>>

----------------------------------------------------------------------------
(* ITGenAttacker of attacks/itgen/attacker.py with its model made explicit: *)
(* the classifier gives every program its predicted label, the substitute   *)
(* dictionary is the number of its identifiers, a replacement map is        *)
(* EmptyMap or Replacements.  attack() and _itgen_attack_impl are entered   *)
(* separately, as no line of attack() calls _itgen_attack_impl.             *)

MaxQueries == 2
MaxIdentifiers == 3

Candidate == "candidate"
Programs == {"code", Candidate}
EmptyMap == "{}"
Replacements == "replacements"
NoReturn == [adversarial_code |-> NoMsg, replaced_identifiers |-> NoMsg]

\* The attacker after its constructor: query_times = 0 (base_attacker 35).
\* searching: the call has reached the search; queries: the model queries
\* of the search of this call.
ItgenIdle(classifier, max_queries) ==
    [pc |-> "idle", entry |-> "none", classifier |-> classifier,
     max_queries |-> max_queries, code1 |-> "", true_label |-> 0,
     substitutes |-> 0, searching |-> FALSE, query_times |-> 0,
     queries |-> 0, attempt |-> 0,
     adversarial_code |-> NoMsg, replaced_identifiers |-> EmptyMap,
     best_success |-> FALSE, returned |-> NoReturn,
     result |-> NoAttackResult]

\* `max_attempts = min(len(available_identifiers), 10)`
max_attempts(substitutes) == IF substitutes < 10 THEN substitutes ELSE 10

\* attack() returns `result`.
ItgenReturn(result) == [atk EXCEPT !.pc = "done", !.result = result]

\* ITGenAttacker.attack is entered: start_time and query_times are reset.
ItgenAttack(code1, true_label, substitutes) ==
    /\ atk.pc \in {"idle", "done"}
    /\ atk' = [ItgenIdle(atk.classifier, atk.max_queries) EXCEPT
                  !.pc = "called", !.entry = "attack", !.code1 = code1,
                  !.true_label = true_label, !.substitutes = substitutes]
    /\ UNCHANGED <<taskVars, authVars, catVars, extVars>>

\* attack() down to the substitutes check (98-145): code1 is validated and
\* the model asked for its prediction; `raises`: the tokenizer, the encoding
\* or the model raised.
ItgenPredict(raises, elapsed) ==
    /\ atk.pc = "called"
    /\ atk' =
        IF atk.code1 = ""
        THEN ItgenReturn(exception_result(atk.code1, atk.query_times, elapsed,
                                          "code1_empty"))
        ELSE IF raises
        THEN ItgenReturn(exception_result(atk.code1, atk.query_times, elapsed,
                                          "model_error"))
        ELSE IF label_mismatch(atk.classifier[atk.code1], atk.true_label)
        THEN ItgenReturn(mismatch_result(atk.code1))
        ELSE IF atk.substitutes = 0
        THEN ItgenReturn(no_substitutes_result(atk.code1))
        ELSE [atk EXCEPT !.pc = "searching", !.searching = TRUE]
    /\ UNCHANGED <<taskVars, authVars, catVars, extVars>>

\* attack(), lines 148-154: `self.itgen_attack(...)` names a method that
\* neither ITGenAttacker nor BaseAttacker defines; the AttributeError goes
\* to the handler of lines 175-185.
ItgenSearch(elapsed) ==
    /\ atk.pc = "searching"
    /\ atk' = ItgenReturn(exception_result(atk.code1, atk.query_times, elapsed,
                                           "no_attribute_itgen_attack"))
    /\ UNCHANGED <<taskVars, authVars, catVars, extVars>>

\* The tuple _itgen_attack_impl returns.
ImplReturn(state) ==
    [state EXCEPT !.pc = "done",
                  !.returned = [adversarial_code |-> state.adversarial_code,
                                replaced_identifiers |-> state.replaced_identifiers]]

\* _itgen_attack_impl(code1, code2, substitutes, true_label) is entered
\* (187-217): query_times is the attacker's, not reset; an empty dictionary
\* returns at once.
ItgenAttackImpl(code1, true_label, substitutes) ==
    /\ atk.pc \in {"idle", "done"}
    /\ LET entered == [ItgenIdle(atk.classifier, atk.max_queries) EXCEPT
                          !.pc = "loop", !.entry = "impl", !.code1 = code1,
                          !.searching = TRUE,
                          !.true_label = true_label,
                          !.substitutes = substitutes,
                          !.query_times = atk.query_times,
                          !.adversarial_code = code1]
       IN  atk' = IF substitutes = 0 THEN ImplReturn(entered) ELSE entered
    /\ UNCHANGED <<taskVars, authVars, catVars, extVars>>

\* One pass of `for attempt in range(max_attempts)` (222-277).
\* current_code: the program after the drawn replacements; too_long: the
\* length check of line 248; raises: the tokenizer or the model raised.
ItgenAttempt(current_code, too_long, raises) ==
    /\ atk.pc = "loop"
    /\ atk.attempt < max_attempts(atk.substitutes)
    /\ atk.query_times < atk.max_queries
    /\ atk' =
        IF too_long \/ raises
        THEN [atk EXCEPT !.attempt = @ + 1]
        ELSE LET asked == [atk EXCEPT !.query_times = @ + 1,
                                      !.queries = @ + 1]
             IN  IF atk.classifier[current_code] # atk.true_label
                 THEN ImplReturn([asked EXCEPT
                                     !.adversarial_code = current_code,
                                     !.replaced_identifiers = Replacements,
                                     !.best_success = TRUE])
                 ELSE [asked EXCEPT !.attempt = @ + 1]
    /\ UNCHANGED <<taskVars, authVars, catVars, extVars>>

\* The loop ends: the range is exhausted, or `break` at line 225.
ItgenLoopEnd ==
    /\ atk.pc = "loop"
    /\ \/ atk.attempt >= max_attempts(atk.substitutes)
       \/ atk.query_times >= atk.max_queries
    /\ atk' = ImplReturn(atk)
    /\ UNCHANGED <<taskVars, authVars, catVars, extVars>>

----------------------------------------------------------------------------
(* The attacker cache of AttackService: self.attackers, read and written by *)
(* _create_unified_attacker with no lock.  A name is the sequence of the    *)
(* parts an underscore separates; an attacker instance is its number in the *)
(* order of construction, and `built` keeps for which method and model each *)
(* was constructed.  One AttackService serves every request thread.         *)

MaxCallers == 2
MaxInstances == 2

Callers == 1..MaxCallers
CachedMethods == {"alert", "beam"}
ModelNames == {<<"codebert">>, <<"codet5">>}
RequestModelIds == {0, 1}
NoInstance == 0

\* `model_name = config.get('model_name', 'codebert')` and the cache key of
\* line 304; has_model_name: the config has the key model_name, which then
\* is the target model's name.
cache_key(method, target_model, model_id, has_model_name) ==
    LET model_name == IF has_model_name THEN target_model ELSE <<"codebert">>
    IN  IF model_id # 0 THEN <<method>> \o model_name \o <<ToString(model_id)>>
        ELSE <<method>> \o model_name

\* The (method, model) pair of a request: the model is the one _load_model
\* loads for it, the row of model_id or else the one named target_model.
pair_of(call) ==
    IF call.model_id # 0 THEN <<call.method, "id", ToString(call.model_id)>>
    ELSE <<call.method, "name">> \o call.target_model

IdleCaller ==
    [pc |-> "idle", method |-> "alert", target_model |-> <<"codebert">>,
     model_id |-> 0, has_model_name |-> FALSE, got |-> NoInstance]

InitAttackers ==
    atk = [attackers |-> {}, built |-> <<>>, calls |-> [c \in Callers |-> IdleCaller]]

\* self.attackers[cache_key], NoInstance when the key is absent.
cached(key) ==
    IF \E e \in atk.attackers : e[1] = key
    THEN (CHOOSE e \in atk.attackers : e[1] = key)[2]
    ELSE NoInstance

KeyOf(call) ==
    cache_key(call.method, call.target_model, call.model_id, call.has_model_name)

\* _create_unified_attacker down to line 307: the key is looked up and a
\* cached attacker returned.
CreateUnifiedAttacker(c, method, target_model, model_id, has_model_name) ==
    /\ atk.calls[c].pc \in {"idle", "returned"}
    /\ LET call == [pc |-> "create", method |-> method,
                    target_model |-> target_model, model_id |-> model_id,
                    has_model_name |-> has_model_name, got |-> NoInstance]
           hit == cached(KeyOf(call))
       IN  atk' = [atk EXCEPT !.calls[c] =
                      IF hit # NoInstance
                      THEN [call EXCEPT !.pc = "returned", !.got = hit]
                      ELSE call]
    /\ UNCHANGED <<taskVars, authVars, catVars, extVars>>

\* Lines 309-321: the attacker is constructed, stored under the key and
\* returned.
ConstructAttacker(c) ==
    /\ atk.calls[c].pc = "create"
    /\ Len(atk.built) < MaxInstances
    /\ LET call == atk.calls[c]
           attacker == Len(atk.built) + 1
       IN  atk' = [atk EXCEPT
                      !.built = Append(@, pair_of(call)),
                      !.attackers = {e \in @ : e[1] # KeyOf(call)}
                                        \cup {<<KeyOf(call), attacker>>},
                      !.calls[c] = [call EXCEPT !.pc = "returned",
                                                !.got = attacker]]
    /\ UNCHANGED <<taskVars, authVars, catVars, extVars>>

\* Line 323: the constructor raised and nothing is stored.
ConstructRaises(c) ==
    /\ atk.calls[c].pc = "create"
    /\ atk' = [atk EXCEPT !.calls[c] = [IdleCaller EXCEPT !.pc = "idle"]]
    /\ UNCHANGED <<taskVars, authVars, catVars, extVars>>

----------------------------------------------------------------------------
(* Registration: register of controllers/auth_controller.py.  A string is   *)
(* a sequence of one-character strings; the handler's queries and its       *)
(* commit are two steps.                                                    *)

Rep(ch, n) == [i \in 1..n |-> ch]

Usernames ==
    {<<>>, Rep("a", 2), Rep("a", 3), <<"a", "b", "_">>, <<"a", "-", "b">>,
     Rep("a", 20), Rep("a", 21)}
Emails == {"", "a@x.io", "b@x.io", "a.x.io"}
RegPasswords == {<<>>, Rep("p", 5), Rep("p", 6)}
FullNames == {<<>>, Rep("n", 100), Rep("n", 101)}
Departments == {<<>>, Rep("d", 101)}
RegClients == {1, 2}

\* Mutant of username_length_ok: the lower limit is 2.
username_length_from_two(username) == Len(username) >= 2 /\ Len(username) <= 20

\* line 116
username_length_ok(username) == ~(Len(username) < 3 \/ Len(username) > 20)

\* re.match(r'^[a-zA-Z0-9_]+$', username), over the characters used here
username_format_ok(username) ==
    /\ Len(username) >= 1
    /\ \A i \in 1..Len(username) : username[i] \in {"a", "b", "_"}

\* re.match(email_pattern, email), over the addresses used here
email_format_ok(email) == email \in {"a@x.io", "b@x.io"}

\* Lines 103-142: 0 when every validation passes, else the status returned.
register_validation(username, email, password, full_name, department) ==
    IF username = <<>> \/ email = "" \/ password = <<>> THEN 400
    ELSE IF ~username_length_ok(username) THEN 400
    ELSE IF ~username_format_ok(username) THEN 400
    ELSE IF ~email_format_ok(email) THEN 400
    ELSE IF Len(password) < 6 THEN 400
    ELSE IF full_name # <<>> /\ (Len(full_name) < 1 \/ Len(full_name) > 100) THEN 400
    ELSE IF department # <<>> /\ Len(department) > 100 THEN 400
    ELSE 0

UsernameExists(username) == \E row \in reg.table : row.username = username
EmailExists(email) == \E row \in reg.table : row.email = email

NoRegistration == [username |-> <<>>, email |-> ""]

\* The response and what the users table held when it was sent: `at` is
\* "query" for an answer of lines 103-150 and "commit" for one of lines
\* 153-174, `valid` says that the request passed lines 103-142.
RegResponse(at, username, email, valid, code) ==
    [at |-> at, code |-> code, username |-> username, email |-> email,
     valid |-> valid,
     username_registered |-> UsernameExists(username),
     email_registered |-> EmailExists(email)]

InitReg ==
    reg = [table |-> {},
           req |-> [c \in RegClients |-> NoRegistration],
           resp |-> [at |-> "none", code |-> 0, username |-> <<>>, email |-> "", valid |-> FALSE,
                     username_registered |-> FALSE, email_registered |-> FALSE]]

\* register up to line 150: validation and the two existence queries.
BeginRegister(c, username, email, password, full_name, department) ==
    /\ reg.req[c] = NoRegistration
    /\ LET invalid == register_validation(username, email, password, full_name,
                                          department)
           code == IF invalid # 0 THEN invalid
                   ELSE IF UsernameExists(username) THEN 409
                   ELSE IF EmailExists(email) THEN 409
                   ELSE 0
       IN  reg' = IF code # 0
                  THEN [reg EXCEPT !.resp = RegResponse("query", username, email,
                                                        invalid = 0, code)]
                  ELSE [reg EXCEPT !.req[c] = [username |-> username,
                                               email |-> email]]
    /\ UNCHANGED <<taskVars, authVars, catVars, atkVars, report, legacy, exec>>

\* register from line 153: the insert.  users.username and users.email are
\* unique columns (db_users.py 13-14): a duplicate makes commit raise and the
\* handler answers 500.
CommitRegister(c) ==
    /\ reg.req[c] # NoRegistration
    /\ LET row == reg.req[c]
           duplicate == UsernameExists(row.username) \/ EmailExists(row.email)
       IN  reg' = [reg EXCEPT
                      !.req[c] = NoRegistration,
                      !.table = IF duplicate THEN @ ELSE @ \cup {row},
                      !.resp = RegResponse("commit", row.username, row.email, TRUE,
                                           IF duplicate THEN 500 ELSE 201)]
    /\ UNCHANGED <<taskVars, authVars, catVars, atkVars, report, legacy, exec>>

----------------------------------------------------------------------------
(* EvaluationService.generate_report_from_results.  The lines of a method's *)
(* result files are a multiset of records: report.results[m][k] is the      *)
(* number of lines of kind k.  Time Cost, and every figure of the report,   *)
(* is counted in hundredths.                                                *)

MaxItgenRecords == 10
MaxAlertRecords == 5

ReportMethods == {"itgen", "alert"}

\* The lines a result file holds: failed, two successful ones, and one
\* without a Type.
RecordKinds == {"failed", "greedy", "itgen", "untyped"}
RecordOf(k) ==
    CASE k = "failed"  -> [Type |-> "0",      QueryTimes |-> 7,  TimeCost |-> 300]
      [] k = "greedy"  -> [Type |-> "Greedy", QueryTimes |-> 3,  TimeCost |-> 125]
      [] k = "itgen"   -> [Type |-> "itgen",  QueryTimes |-> 10, TimeCost |-> 750]
      [] k = "untyped" -> [Type |-> NoMsg,    QueryTimes |-> 1,  TimeCost |-> 50]

\* sum(...) of a generator expression: f gives each element's term.
RECURSIVE Sum(_)
Sum(f) ==
    IF DOMAIN f = {} THEN 0
    ELSE LET x == CHOOSE y \in DOMAIN f : TRUE
         IN  f[x] + Sum([y \in DOMAIN f \ {x} |-> f[y]])

\* len(all_results), len(successful_results), len(failed_results):
\* lines 150-151 and 178-180.
is_successful(r) == r.Type # "0" /\ r.Type # NoMsg
is_failed(r) == r.Type = "0"
total_samples(lines) == Sum([k \in RecordKinds |->
            lines[k]])
successful_attacks(lines) ==
    Sum([k \in RecordKinds |->
            IF is_successful(RecordOf(k)) THEN lines[k] ELSE 0])
failed_attacks(lines) ==
    Sum([k \in RecordKinds |->
            IF is_failed(RecordOf(k)) THEN lines[k] ELSE 0])

\* sum(r.get(key, 0) for r in successful_results), keys Query Times (in
\* hundredths) and Time Cost
sum_query_times(lines) ==
    Sum([k \in RecordKinds |->
            IF is_successful(RecordOf(k)) THEN lines[k] * RecordOf(k).QueryTimes * 100 ELSE 0])
sum_time_cost(lines) ==
    Sum([k \in RecordKinds |->
            IF is_successful(RecordOf(k)) THEN lines[k] * RecordOf(k).TimeCost ELSE 0])

\* round(num / den, 2) for num in hundredths: the nearest hundredth, a tie
\* going to the even one.
round2(num, den) ==
    LET q == num \div den
        r == num % den
    IN  IF 2 * r < den THEN q
        ELSE IF 2 * r > den THEN q + 1
        ELSE IF q % 2 = 0 THEN q ELSE q + 1

\* method_metrics[method], lines 187-218, from the counts of lines 178-180
metrics_of(total, successful, failed, lines) ==
    [total_samples |-> total,
     successful_attacks |-> successful,
     failed_attacks |-> failed,
     asr |-> IF total > 0 THEN round2(successful * 10000, total) ELSE 0,
     ami |-> IF successful > 0 THEN round2(sum_query_times(lines), successful)
             ELSE 0,
     art |-> IF successful > 0 THEN round2(sum_time_cost(lines), successful)
             ELSE 0]

method_metrics(lines) ==
    metrics_of(total_samples(lines), successful_attacks(lines),
               failed_attacks(lines), lines)

\* Mutant of weight_of: a method weighs as its successful attacks do.
weight_by_successes(metrics) == metrics.successful_attacks

\* `weight = method_data['total_samples'] / total_samples`: its numerator
weight_of(metrics) == metrics.total_samples

\* summary_stats, lines 224-270, from method_metrics and the totals of
\* overall_stats; the error dict when no line was read.
summary_of(metrics, total, successful, failed) ==
    IF total = 0
    THEN [success |-> FALSE]
    ELSE [success |-> TRUE,
          method_metrics |-> metrics,
          total_samples |-> total,
          successful_attacks |-> successful,
          failed_attacks |-> failed,
          asr |-> round2(successful * 10000, total),
          ami |-> round2(Sum([m \in ReportMethods |->
                                 metrics[m].ami * weight_of(metrics[m])]), total),
          art |-> round2(Sum([m \in ReportMethods |->
                                 metrics[m].art * weight_of(metrics[m])]), total)]

overall_stats(metrics) ==
    summary_of(metrics,
               Sum([m \in ReportMethods |-> metrics[m].total_samples]),
               Sum([m \in ReportMethods |-> metrics[m].successful_attacks]),
               Sum([m \in ReportMethods |-> metrics[m].failed_attacks]))

NoReport == [success |-> FALSE, pending |-> TRUE]

\* The result files a method can have: at most MaxRecords(m) lines.
ItgenFiles ==
    {lines \in [RecordKinds -> 0..MaxItgenRecords] :
        total_samples(lines) <= MaxItgenRecords}
AlertFiles ==
    {lines \in [RecordKinds -> 0..MaxAlertRecords] :
        total_samples(lines) <= MaxAlertRecords}

NoMethodMetrics == [m \in ReportMethods |-> metrics_of(0, 0, 0, [k \in RecordKinds |-> 0])]

InitRep == report = [results |-> [m \in ReportMethods |-> [k \in RecordKinds |-> 0]],
                     stage |-> "read",
                     method_metrics |-> NoMethodMetrics,
                     out |-> NoReport]


\* generate_report_from_results, step 4: the loop of lines 172-221.
MeasureMethods ==
    /\ report.stage = "read"
    /\ report' = [report EXCEPT
                     !.stage = "measured",
                     !.method_metrics =
                         [m \in ReportMethods |-> method_metrics(report.results[m])]]
    /\ UNCHANGED <<taskVars, authVars, catVars, atkVars, regVars, legacy, exec>>

\* generate_report_from_results, steps 5 and 6: lines 224-270.
GenerateReport ==
    /\ report.stage = "measured"
    /\ report' = [report EXCEPT !.stage = "reported",
                                !.out = overall_stats(report.method_metrics)]
    /\ UNCHANGED <<taskVars, authVars, catVars, atkVars, regVars, legacy, exec>>

----------------------------------------------------------------------------
(* The legacy handler create_attack of api/attack.py (POST /attack/start).  *)
(* A uuid is a number never handed out before.                              *)

MaxUuids == 3

\* The request bodies told apart by lines 48-85.
LegacyBodies ==
    {"empty", "not_a_dict", "no_code_data", "code_data_not_a_dict",
     "code_data_without_code2", "valid"}

\* Lines 48-85: "rejected" with 400, "passed", or "raises" for a body
\* without keys() (line 51).
legacy_validation(body) ==
    CASE body = "empty" -> "rejected"
      [] body = "not_a_dict" -> "raises"
      [] body = "no_code_data" -> "rejected"
      [] body = "code_data_not_a_dict" -> "rejected"
      [] body = "code_data_without_code2" -> "rejected"
      [] body = "valid" -> "passed"

\* Lines 95-110: the module binds no name attack_service (it imports the
\* class AttackService and instantiates only TaskService), nor language,
\* model_id or true_label: evaluating the call raises NameError.
attack_call(method) == "raises"

NoLegacyResponse ==
    [body |-> "none", method |-> "none", code |-> 0, success |-> FALSE,
     task_id |-> 0, note |-> NoMsg, validated |-> FALSE, failed |-> FALSE]

InitLegacy == legacy = [uuids |-> 0, resp |-> NoLegacyResponse]


\* create_attack.  `stored`: create_task and update_task_status succeeded;
\* either way the handler answers 200 (lines 129-159).
CreateAttack(body, method, stored) ==
    /\ legacy.uuids < MaxUuids
    /\ LET checked == legacy_validation(body)
           task_id == legacy.uuids + 1
           outcome == attack_call(method)
           answer(code, success, id, note, validated, failed) ==
               [body |-> body, method |-> method, code |-> code,
                success |-> success, task_id |-> id, note |-> note,
                validated |-> validated, failed |-> failed]
       IN  legacy' =
             IF checked = "raises"
             THEN [uuids |-> task_id,
                   resp |-> answer(200, TRUE, task_id, "demo_mode", FALSE, TRUE)]
             ELSE IF checked = "rejected"
             THEN [legacy EXCEPT
                      !.resp = answer(400, FALSE, 0, NoMsg, FALSE, TRUE)]
             ELSE IF outcome = "failed"
             THEN [uuids |-> task_id,
                   resp |-> answer(400, FALSE, task_id, NoMsg, TRUE, TRUE)]
             ELSE IF outcome = "raises"
             THEN [uuids |-> task_id,
                   resp |-> answer(500, FALSE, task_id, NoMsg, TRUE, TRUE)]
             ELSE [uuids |-> task_id,
                   resp |-> answer(200, TRUE, task_id, NoMsg, TRUE, ~stored)]
    /\ UNCHANGED <<taskVars, authVars, catVars, atkVars, regVars, repVars, exec>>

----------------------------------------------------------------------------
(* TaskExecutionScheduler (services/task_execution_scheduler.py): the loop *)
(* of _run, the execution threads it starts and its in-flight map.  The    *)
(* keys of the map are active_tasks; exec.entry holds the value of each.   *)
(* One step per database round trip of a thread.                           *)

MaxThreads == 2
NumMilestones == 2
TickSeconds == 3600

task_timeout == 1800

ThreadIds == 1..MaxThreads
NoThread == 0

\* The keys of TaskService.TASK_TYPES: the types create_task accepts.
TaskTypes ==
    {"attack", "single_attack", "batch_attack", "generate_report", "finetune",
     "evaluate_model"}

\* The if / elif chain of _execute_task, lines 232-247.
routine_of(task_type) ==
    IF task_type \in {"single_attack", "attack"} THEN "_execute_attack_task"
    ELSE IF task_type = "batch_attack" THEN "_execute_batch_testing_task"
    ELSE IF task_type = "generate_report" THEN "_execute_evaluation_task"
    ELSE IF task_type = "finetune" THEN "_execute_finetuning_task"
    ELSE "unknown"

\* Where the result a routine stores on completion comes from.  No routine
\* calls AttackService.attack or a training step: the attack routine stores
\* a literal dict (lines 310-402), the finetune and evaluation routines the
\* literals of _generate_static_finetuning_report and
\* _generate_static_evaluation_report, the batch routine a result file.
result_source(task_type) ==
    IF routine_of(task_type) = "_execute_attack_task" THEN "demo_literal"
    ELSE IF routine_of(task_type) = "_execute_batch_testing_task" THEN "result_file"
    ELSE IF routine_of(task_type) \in {"_execute_evaluation_task",
                                       "_execute_finetuning_task"}
    THEN "static_report"
    ELSE "none"

MsgStart == "task_start"
MsgProgress == "progress"
MsgUnknownType == "unknown_task_type"
MsgExecFailed == "exec_failed"
MsgTimeout == "task_timeout"
MsgCrash == "thread_died"
ErrRoutine == "routine_failed"

\* progress_steps of a routine; the evaluation routine writes 20, 50, 90.
progress_steps(task_type) ==
    IF task_type = "generate_report" THEN <<20, 50, 90>>
    ELSE IF task_type = "finetune" THEN <<10, 30, 50, 80, 95, 100>>
    ELSE <<10, 25, 45, 65, 85, 100>>

\* Which milestones a routine checks for cancellation before: all of them,
\* except the first of _execute_evaluation_task.
checks_before(task_type, k) == task_type # "generate_report" \/ k > 1

\* Whether a routine checks once more after its last milestone.
checks_at_end(task_type) == task_type # "generate_report"

\* What a routine's own `except` does: the attack routine re-raises, the
\* batch routine writes failed and re-raises, the other two write failed.
handler_of(task_type) ==
    IF routine_of(task_type) = "_execute_attack_task" THEN "except" ELSE "inner_except"

reraises(task_type) == task_type = "batch_attack"

\* overwrote: a milestone write of the thread's routine found the row
\* cancelled; raised: the thread has raised.  Both are history.
UnbornThread ==
    [pc |-> "unborn", task |-> NoTask, k |-> 0, overwrote |-> FALSE, raised |-> FALSE]

NoEntry == [thread |-> NoThread, start_time |-> NoTime]

\* The thread create_attack of api/new_attack.py starts for its task.
UnbornRequest == [pc |-> "unborn", task |-> NoTask]

IdleExec ==
    [loop |-> "timeout", next_task |-> NoTask, started |-> NoThread,
     task_type |-> "single_attack",
     threads |-> [th \in ThreadIds |-> UnbornThread],
     entry |-> [t \in TaskIds |-> NoEntry],
     request |-> UnbornRequest]

InitExec == exec = IdleExec

is_alive(th) == th \in ThreadIds /\ exec.threads[th].pc \notin {"unborn", "dead"}

AliveThreadsOf(t) == {th \in ThreadIds : is_alive(th) /\ exec.threads[th].task = t}

\* (current_time - start_time).total_seconds()
elapsed_time(t) == (now - exec.entry[t].start_time) * TickSeconds

\* line 974
timed_out(t) == t \in active_tasks /\ elapsed_time(t) > task_timeout

\* The row a thread or the loop writes through update_task_status.
running_write(row, progress, message, t) ==
    update_task_status(row, "running", progress, message, NoResult, NoMetrics, t)

completed_write(row, t) ==
    update_task_status(row, "completed", 100, MsgCompleted, OkResult, NoMetrics, t)

\* The write of a handler that sends the row back to the queue while it can
\* be retried, as TaskService.mark_task_failed does.
failed_write_with_retry(row, message, result, t) == mark_task_failed(row, message, t)

failed_write(row, message, result, t) ==
    update_task_status(row, "failed", 0, message, result, NoMetrics, t)

Goto(th, pc) == [exec EXCEPT !.threads[th].pc = pc]

ExecStep(th, e) ==
    /\ exec' = e
    /\ UNCHANGED <<now, sched, lastOp>>
    /\ UNCHANGED <<authVars, catVars, atkVars, reg, report, legacy>>

\* _execute_task, lines 189-197
ExecEnter(th) ==
    LET t == exec.threads[th].task IN
    /\ exec.threads[th].pc = "started"
    /\ ExecStep(th, [Goto(th, "read") EXCEPT
                        !.entry[t].start_time = IF t \in active_tasks THEN now ELSE @])
    /\ UNCHANGED <<tasks, active_tasks>>

\* lines 202-219: a `return` inside the try runs the finally
ExecRead(th) ==
    LET t == exec.threads[th].task IN
    /\ exec.threads[th].pc = "read"
    /\ ExecStep(th, IF tasks[t].exists /\ tasks[t].status \in {"pending", "queued"}
                    THEN Goto(th, "write_running")
                    ELSE Goto(th, "finally"))
    /\ UNCHANGED <<tasks, active_tasks>>

\* lines 224-240: the write, then the dispatch by task type
ExecWriteRunning(th) ==
    LET t == exec.threads[th].task IN
    /\ exec.threads[th].pc = "write_running"
    /\ tasks[t].exists
    /\ SetRow(t, running_write(tasks[t], 0, MsgStart, now))
    /\ ExecStep(th, [exec EXCEPT
                        !.threads[th].pc =
                            IF routine_of(exec.task_type) = "unknown" THEN "write_unknown"
                            ELSE IF checks_before(exec.task_type, 1) THEN "check"
                            ELSE "write",
                        !.threads[th].k = 1])
    /\ UNCHANGED active_tasks

\* lines 240-247
ExecUnknownType(th) ==
    LET t == exec.threads[th].task IN
    /\ exec.threads[th].pc = "write_unknown"
    /\ tasks[t].exists
    /\ SetRow(t, failed_write(tasks[t], MsgUnknownType, NoResult, now))
    /\ ExecStep(th, Goto(th, "finally"))
    /\ UNCHANGED active_tasks

\* The cancellation check before a milestone (attack 287-292, batch 438-442,
\* evaluation 576-580 and 609-613, finetune 841-844).
ExecCheck(th) ==
    LET t == exec.threads[th].task IN
    /\ exec.threads[th].pc = "check"
    /\ ExecStep(th, IF tasks[t].exists /\ tasks[t].status = "cancelled"
                    THEN Goto(th, "finally")
                    ELSE Goto(th, "write"))
    /\ UNCHANGED <<tasks, active_tasks>>

\* The milestone: update_task_status(status='running', progress, message).
ExecMilestone(th) ==
    LET t == exec.threads[th].task
        k == exec.threads[th].k
    IN  /\ exec.threads[th].pc = "write"
        /\ tasks[t].exists
        /\ SetRow(t, running_write(tasks[t], progress_steps(exec.task_type)[k],
                                   MsgProgress, now))
        /\ ExecStep(th, [exec EXCEPT
                            !.threads[th].pc =
                                IF k < NumMilestones
                                THEN IF checks_before(exec.task_type, k + 1)
                                     THEN "check" ELSE "write"
                                ELSE IF checks_at_end(exec.task_type)
                                THEN "final_check" ELSE "complete",
                            !.threads[th].k = IF k < NumMilestones THEN k + 1 ELSE k,
                            !.threads[th].overwrote = @ \/ tasks[t].status = "cancelled"])
        /\ UNCHANGED active_tasks

\* The check after the last milestone (attack 304-308, batch 459-463,
\* finetune 855-859).
ExecFinalCheck(th) ==
    LET t == exec.threads[th].task IN
    /\ exec.threads[th].pc = "final_check"
    /\ ExecStep(th, IF tasks[t].exists /\ tasks[t].status = "cancelled"
                    THEN Goto(th, "finally")
                    ELSE IF exec.task_type = "batch_attack"
                    THEN Goto(th, "read_file")
                    ELSE Goto(th, "complete"))
    /\ UNCHANGED <<tasks, active_tasks>>

\* Where an exception lands: in the routine's own `except` when the routine
\* is running, else in the `except` of _execute_task.
Raise(th) ==
    [exec EXCEPT !.threads[th].pc =
                     IF exec.threads[th].pc \in {"read", "write_running", "write_unknown"}
                     THEN "except" ELSE handler_of(exec.task_type),
                 !.threads[th].raised = TRUE]

\* batch 470-482: FileNotFoundError when the result file is at neither path
ExecReadFile(th) ==
    /\ exec.threads[th].pc = "read_file"
    /\ \E found \in BOOLEAN :
          ExecStep(th, IF found THEN Goto(th, "complete") ELSE Raise(th))
    /\ UNCHANGED <<tasks, active_tasks>>

\* A statement inside the try of _execute_task, or of the routine it has
\* called, raises before the thread's next database call.
ExecRaise(th) ==
    /\ exec.threads[th].pc \in {"read", "write_running", "write_unknown",
                                "check", "write", "final_check", "complete"}
    /\ ExecStep(th, Raise(th))
    /\ UNCHANGED <<tasks, active_tasks>>

\* The terminal write of a routine (attack 405-411, batch 530-537,
\* evaluation 634-641, finetune 865-872).
ExecComplete(th) ==
    LET t == exec.threads[th].task IN
    /\ exec.threads[th].pc = "complete"
    /\ tasks[t].exists
    /\ SetRow(t, completed_write(tasks[t], now))
    /\ ExecStep(th, Goto(th, "finally"))
    /\ UNCHANGED active_tasks

\* The `except` of a routine that writes failed (batch 541-551, evaluation
\* 647-656, finetune 876-885); the batch routine raises again.
ExecRoutineExcept(th) ==
    LET t == exec.threads[th].task IN
    /\ exec.threads[th].pc = "inner_except"
    /\ tasks[t].exists
    /\ SetRow(t, failed_write(tasks[t], MsgExecFailed, ErrResult(ErrRoutine), now))
    /\ ExecStep(th, IF reraises(exec.task_type)
                    THEN Goto(th, "except") ELSE Goto(th, "finally"))
    /\ UNCHANGED active_tasks

\* _execute_task, lines 249-256
ExecExcept(th) ==
    LET t == exec.threads[th].task IN
    /\ exec.threads[th].pc = "except"
    /\ tasks[t].exists
    /\ SetRow(t, failed_write(tasks[t], MsgExecFailed, NoResult, now))
    /\ ExecStep(th, Goto(th, "finally"))
    /\ UNCHANGED active_tasks

\* lines 257-261: the entry of the task id goes, whoever registered it
ExecFinally(th) ==
    LET t == exec.threads[th].task IN
    /\ exec.threads[th].pc = "finally"
    /\ active_tasks' = active_tasks \ {t}
    /\ ExecStep(th, Goto(th, "dead"))
    /\ UNCHANGED tasks

\* The steps of a thread whose task is a single attack.
AttackThread(th) ==
    \/ ExecEnter(th)
    \/ ExecRead(th)
    \/ ExecWriteRunning(th)
    \/ ExecCheck(th)
    \/ ExecMilestone(th)
    \/ ExecFinalCheck(th)
    \/ ExecRaise(th)
    \/ ExecComplete(th)
    \/ ExecExcept(th)
    \/ ExecFinally(th)

ExecuteTask(th) ==
    \/ AttackThread(th)
    \/ ExecUnknownType(th)
    \/ ExecReadFile(th)
    \/ ExecRoutineExcept(th)

LoopStep(e) ==
    /\ exec' = e
    /\ UNCHANGED <<now, sched, lastOp>>
    /\ UNCHANGED <<authVars, catVars, atkVars, reg, report, legacy>>

\* _check_timeout_tasks: update_task_status raises for a missing row, the
\* `except` of line 1002 logs it and the entry stays.
timeout_tasks == {t \in TaskIds : timed_out(t)}

CheckTimeoutTasks ==
    /\ exec.loop = "timeout"
    /\ tasks' = [t \in TaskIds |->
                    IF t \in timeout_tasks /\ tasks[t].exists
                    THEN failed_write(tasks[t], MsgTimeout, ErrResult(MsgTimeout), now)
                    ELSE tasks[t]]
    /\ active_tasks' = active_tasks \ {t \in timeout_tasks : tasks[t].exists}
    /\ LoopStep([exec EXCEPT !.loop = "next"])

\* _check_and_execute_next_task, line 105: get_next_pending_task with no
\* other caller, which marks a pending row queued and returns it, or
\* returns a queued row, or None.
NextPending ==
    IF WithStatus("pending") # {} THEN First(WithStatus("pending"))
    ELSE First(WithStatus("queued"))

FreeThreads == {th \in ThreadIds : exec.threads[th].pc = "unborn"}

DispatchQuery ==
    /\ exec.loop = "next"
    /\ FreeThreads # {}
    /\ IF NextPending = {}
       THEN /\ LoopStep([exec EXCEPT !.loop = "reap"])
            /\ UNCHANGED tasks
       ELSE \E t \in NextPending :
               /\ SetRow(t, IF tasks[t].status = "pending"
                            THEN flush_queued(tasks[t], tasks[t].queued_at = NoTime, now)
                            ELSE tasks[t])
               /\ LoopStep([exec EXCEPT !.loop = "recheck", !.next_task = t])
    /\ UNCHANGED active_tasks

\* lines 115-173: the second read of the row, the look in the in-flight map
\* and the start of the thread.
DispatchStart ==
    LET t == exec.next_task
        th == CHOOSE x \in FreeThreads : \A y \in FreeThreads : x <= y
    IN  /\ exec.loop = "recheck"
        /\ IF ~tasks[t].exists \/ tasks[t].status \notin {"pending", "queued"}
           THEN /\ LoopStep([exec EXCEPT !.loop = "reap", !.next_task = NoTask])
                /\ UNCHANGED active_tasks
           ELSE IF t \in active_tasks /\ is_alive(exec.entry[t].thread)
           THEN /\ LoopStep([exec EXCEPT !.loop = "reap", !.next_task = NoTask])
                /\ UNCHANGED active_tasks
           ELSE /\ active_tasks' = active_tasks \ {t}
                /\ LoopStep([exec EXCEPT
                                !.loop = "register",
                                !.started = th,
                                !.threads[th] = [UnbornThread EXCEPT !.pc = "started",
                                                                     !.task = t]])
        /\ UNCHANGED tasks

\* lines 176-180: the entry is written after the thread has started
DispatchRegister ==
    LET t == exec.next_task IN
    /\ exec.loop = "register"
    /\ active_tasks' = active_tasks \cup {t}
    /\ LoopStep([exec EXCEPT !.loop = "reap", !.next_task = NoTask,
                             !.started = NoThread,
                             !.entry[t] = [thread |-> exec.started, start_time |-> now]])
    /\ UNCHANGED tasks

\* _cleanup_completed_threads: the entries of dead threads, split by the
\* status of the row (lines 1013-1028).
dead_entries == {t \in active_tasks : ~is_alive(exec.entry[t].thread)}

stuck_task_ids == {t \in dead_entries : tasks[t].exists /\ tasks[t].status = "running"}

completed_task_ids == dead_entries \ stuck_task_ids

CleanupCompletedThreads ==
    /\ exec.loop = "reap"
    /\ tasks' = [t \in TaskIds |->
                    IF t \in stuck_task_ids
                    THEN failed_write(tasks[t], MsgCrash, ErrResult(MsgCrash), now)
                    ELSE tasks[t]]
    /\ active_tasks' = active_tasks \ completed_task_ids
    /\ LoopStep([exec EXCEPT !.loop = "timeout"])

Run ==
    \/ CheckTimeoutTasks
    \/ DispatchQuery
    \/ DispatchStart
    \/ DispatchRegister
    \/ CleanupCompletedThreads

----------------------------------------------------------------------------
(* create_attack of api/new_attack.py (POST /attack/start with a token) and *)
(* the thread it starts, execute_attack_async.  The scheduler of            *)
(* app/__init__.py:93-95 runs in the same process over the same table.      *)

\* str(e) of the ValueError signal.signal raises outside the main thread
ErrSignal == "signal_only_works_in_main_thread"

RequestStep(pc) ==
    /\ exec' = [exec EXCEPT !.request.pc = pc]
    /\ UNCHANGED <<now, sched, active_tasks>>
    /\ UNCHANGED <<authVars, catVars, atkVars, reg, report, legacy>>

\* Lines 145-244: create_task stores the row as pending, the thread is
\* started and the task id answered.
NewAttackCreateAttack(t) ==
    /\ exec.request.pc = "unborn"
    /\ ~tasks[t].exists
    /\ \A u \in TaskIds : u < t => tasks[u].exists
    /\ SetRow(t, NewRow(PriorityAttack, now))
    /\ lastOp' = Op("create_task", t, NoMsg, TRUE)
    /\ exec' = [exec EXCEPT !.request = [pc |-> "started", task |-> t]]
    /\ UNCHANGED <<now, sched, active_tasks>>
    /\ UNCHANGED <<authVars, catVars, atkVars, reg, report, legacy>>

\* Line 167: mark_task_running, whatever the status of the row.
RequestMarkRunning ==
    LET t == exec.request.task IN
    /\ exec.request.pc = "started"
    /\ IF tasks[t].exists
       THEN /\ SetRow(t, mark_running(tasks[t], now))
            /\ lastOp' = Op("mark_task_running", t, NoMsg, TRUE)
       ELSE /\ UNCHANGED tasks
            /\ lastOp' = Op("mark_task_running", t, NoMsg, FALSE)
    /\ RequestStep("running")

\* Lines 170-177 and 233-239: signal.signal is called in a thread that is
\* not the main thread and raises ValueError, before attack_service.attack
\* is reached; the handler calls mark_task_failed, which puts a row that
\* can be retried back to pending.
RequestFails ==
    LET t == exec.request.task IN
    /\ exec.request.pc = "running"
    /\ IF tasks[t].exists
       THEN /\ SetRow(t, mark_task_failed(tasks[t], ErrSignal, now))
            /\ lastOp' = Op("mark_task_failed", t, ErrSignal, TRUE)
       ELSE /\ UNCHANGED tasks
            /\ lastOp' = Op("mark_task_failed", t, ErrSignal, FALSE)
    /\ RequestStep("ended")

ExecuteAttackAsync == RequestMarkRunning \/ RequestFails

InitExt == InitReg /\ InitRep /\ InitLegacy /\ InitExec

----------------------------------------------------------------------------
(* Specifications *)

Init == InitTasks /\ InitAuth /\ InitCat /\ InitAtk /\ InitExt

\* TaskService's single-row methods and the cancel handlers touch the row
\* they are given and no other: they are run on one row, in any order.
OneRow == {1}

SvcCall ==
    \/ \E t \in OneRow : CreateTask(t, PriorityAttack)
    \/ \E t \in OneRow, s \in TASK_STATUSES : UpdateTaskStatus(t, s, NoResult)
    \/ \E t \in OneRow : MarkTaskRunning(t)
    \/ \E t \in OneRow : MarkTaskCompleted(t)
    \/ \E t \in OneRow : MarkTaskFailed(t)
    \/ \E t \in OneRow, r \in Reasons \cup {NoMsg} : CancelTask(t, r)
    \/ \E t \in OneRow, r \in Reasons : SchedulerCancelTask(t, r)
    \/ \E t \in OneRow, r \in Reasons : ApiCancelTask(t, r)
    \/ \E t \in OneRow : NewAttackCancelTask(t)

NextService ==
    \/ Tick
    \/ SvcCall

SpecService == Init /\ [][NextService]_vars

\* get_next_pending_task as a function of the table: the table is any that
\* create_task and PUT /task/<id>/status leave (a row created at `c`, then
\* given status `s`), and the call runs with no other caller.
DrawnRow(p, c, s) ==
    IF s = "pending" THEN NewRow(p, c)
    ELSE update_task_status(NewRow(p, c), s, NoProgress, NoMsg, NoResult, NoMetrics, c)

DrawnRows ==
    {NoRow} \cup {DrawnRow(p, c, s) : p \in {PriorityAttack, PriorityFinetune},
                                      c \in 1..MaxTime, s \in TASK_STATUSES}

InitPick ==
    /\ tasks \in [TaskIds -> DrawnRows]
    /\ now = MaxTime
    /\ sched = IdleSched
    /\ active_tasks = {}
    /\ lastOp = NoOp
    /\ InitAuth
    /\ InitCat
    /\ InitAtk
    /\ InitExt

NextPick ==
    \/ GetNextPendingTask
    \/ GnptTaken

SpecPick == InitPick /\ [][NextPick]_vars

\* get_next_pending_task on the scheduler's thread while request threads
\* create and cancel tasks.
NextRace ==
    \/ Tick
    \/ \E t \in TaskIds, p \in {PriorityAttack, PriorityFinetune} : CreateTask(t, p)
    \/ \E t \in TaskIds : CancelTask(t, NoMsg)
    \/ GetNextPendingTask
    \/ GnptTaken

Spec == Init /\ [][NextRace]_vars

SpecAuth == Init /\ [][NextAuth]_vars
\* The user administration handlers, any caller, any target, clients
\* taking turns or overlapping.
NextUsers ==
    \/ \E c \in ClientIds, caller \in AccountIds, target \in AccountIds :
           DeleteUser(c, caller, target)
    \/ \E c \in ClientIds, caller \in AccountIds, role \in {"admin", "user"} :
           CreateUser(c, caller, role)
    \/ \E c \in ClientIds, caller \in AccountIds, target \in AccountIds,
          role \in {"admin", "user"} :
           UpdateUserRole(c, caller, target, role)

SpecUsers == Init /\ [][NextUsers]_vars

\* The requests that insert a model row.
CreateRequest(c, names) ==
    \/ \E caller \in AccountIds, name \in names : BeginCreateModel(c, caller, name)
    \/ \E name \in names, source \in Sources : BeginAddModel(c, name, source)

UploadModelRequest(c) ==
    \/ \E name \in Names, result \in UploadResults : BeginUploadModel(c, name, result)
    \/ SaveUploadedModel(c)

UpdateRequest(c, fields) ==
    \/ \E caller \in AccountIds, m \in ModelIds, field \in fields :
           \E value \in FieldValues(field) : BeginUpdateModel(c, caller, m, field, value)
    \/ WriteModel(c)

\* The model handlers, one request at a time, beside a task that uses a
\* model.  One name is in use, so one model row is live at a time.
OneClient == {1}
OneName == {"a"}

NextModels ==
    \/ \E c \in OneClient : CreateRequest(c, OneName)
    \/ \E c \in OneClient : InsertModel(c)
    \/ \E c \in OneClient : UpdateRequest(c, {"model_source", "is_predefined"})
    \/ \E c \in OneClient, caller \in AccountIds, m \in ModelIds, fk \in BOOLEAN :
           AdminDeleteModel(c, caller, m, fk)
    \/ \E c \in OneClient, m \in ModelIds, fk \in BOOLEAN : ApiDeleteModel(c, m, fk)
    \/ \E c \in OneClient, name \in OneName, result \in UploadResults :
           UploadMlmModel(c, name, result)
    \/ \E t \in OneRow, m \in ModelIds : CreateTaskForModel(t, m)
    \/ \E t \in OneRow, status \in {"running", "completed"} :
           UpdateTaskStatus(t, status, NoResult)

SpecModels == Init /\ [][NextModels]_vars

\* Create, upload and rename requests of several clients overlap: each step
\* is the query or the commit of one of them.
NextNames ==
    \/ \E c \in ClientIds : CreateRequest(c, Names)
    \/ \E c \in ClientIds : UploadModelRequest(c)
    \/ \E c \in ClientIds : InsertModel(c)
    \/ \E c \in ClientIds : UpdateRequest(c, {"model_name"})

SpecNames == Init /\ [][NextNames]_vars

\* Model and dataset uploads of several clients overlap.
NextUploads ==
    \/ \E c \in ClientIds : UploadModelRequest(c)
    \/ \E c \in ClientIds : InsertModel(c)
    \/ \E c \in ClientIds, name \in Names, result \in UploadResults :
           BeginUploadDataset(c, name, result)
    \/ \E c \in ClientIds : SaveUploadedDataset(c)
    \/ \E c \in ClientIds : InsertDataset(c)

SpecUploads == Init /\ [][NextUploads]_vars

\* cleanup_old_tasks with any filters, on any table create_task and
\* PUT /task/<id>/status leave.
NextCleanup ==
    \E days \in 0..MaxDays, task_type \in {NoMsg, "attack", "finetune"},
       status \in TASK_STATUSES \cup {NoMsg}, keep_failed \in BOOLEAN :
        CleanupOldTasks(days, task_type, status, keep_failed)

SpecCleanup == InitPick /\ [][NextCleanup]_vars

\* attack() of every attacker, called directly or through AttackService.
NextAttack ==
    \/ \E method \in SearchMethods \cup StubMethods, code1 \in Codes,
          true_label \in Labels, substitutes \in BOOLEAN :
          Attack(method, code1, true_label, substitutes)
    \/ \E raises \in BOOLEAN, predicted_label \in Labels, elapsed \in Elapsed :
          Predict(raises, predicted_label, elapsed)
    \/ \E raises \in BOOLEAN, orig_label \in Labels,
          has_variable_names \in BOOLEAN, elapsed \in Elapsed :
          Search(raises, orig_label, has_variable_names, elapsed)
    \/ \E method \in ATTACK_REGISTRY \cup {"style"}, code1 \in Codes,
          true_label \in Labels, substitutes \in BOOLEAN,
          loaded \in BOOLEAN, created \in BOOLEAN, elapsed \in Elapsed :
          ServiceAttack(method, code1, true_label, substitutes, loaded,
                        created, elapsed)
    \/ \E elapsed \in Elapsed : ServiceReturn(elapsed)

SpecAttack == Init /\ [][NextAttack]_vars

\* An ITGenAttacker over any classifier and any max_queries: attack() and
\* _itgen_attack_impl with any arguments.
InitItgen ==
    /\ InitTasks /\ InitAuth /\ InitCat /\ InitExt
    /\ \E classifier \in [Programs -> Labels], max_queries \in 0..MaxQueries :
          atk = ItgenIdle(classifier, max_queries)

NextItgen ==
    \/ \E code1 \in Codes, true_label \in Labels,
          substitutes \in 0..MaxIdentifiers :
          ItgenAttack(code1, true_label, substitutes)
    \/ \E code1 \in Codes, true_label \in Labels,
          substitutes \in 0..MaxIdentifiers :
          ItgenAttackImpl(code1, true_label, substitutes)
    \/ \E raises \in BOOLEAN, elapsed \in Elapsed : ItgenPredict(raises, elapsed)
    \/ \E elapsed \in Elapsed : ItgenSearch(elapsed)
    \/ \E current_code \in Programs, too_long \in BOOLEAN, raises \in BOOLEAN :
          ItgenAttempt(current_code, too_long, raises)
    \/ ItgenLoopEnd

SpecItgen == InitItgen /\ [][NextItgen]_vars

\* Request threads that ask one AttackService for attackers.
InitAttackerCache == InitTasks /\ InitAuth /\ InitCat /\ InitExt /\ InitAttackers

NextAttackers ==
    \E c \in Callers :
        \/ \E method \in CachedMethods, target_model \in ModelNames,
              model_id \in RequestModelIds, has_model_name \in BOOLEAN :
              CreateUnifiedAttacker(c, method, target_model, model_id,
                                    has_model_name)
        \/ ConstructAttacker(c)
        \/ ConstructRaises(c)

SpecAttackers == InitAttackerCache /\ [][NextAttackers]_vars

\* POST /register from two clients.
NextRegister ==
    \/ \E c \in RegClients, username \in Usernames, email \in Emails,
          password \in RegPasswords, full_name \in FullNames,
          department \in Departments :
          BeginRegister(c, username, email, password, full_name, department)
    \/ \E c \in RegClients : CommitRegister(c)

SpecRegister == Init /\ [][NextRegister]_vars

\* generate_report_from_results on any result files of the two methods.
InitReport ==
    /\ InitTasks /\ InitAuth /\ InitCat /\ InitAtk /\ InitReg /\ InitLegacy /\ InitExec
    /\ \E itgen \in ItgenFiles, alert \in AlertFiles :
          report = [results |-> [m \in ReportMethods |->
                                    IF m = "itgen" THEN itgen ELSE alert],
                    stage |-> "read",
                    method_metrics |-> NoMethodMetrics,
                    out |-> NoReport]

NextReport == MeasureMethods \/ GenerateReport

SpecReport == InitReport /\ [][NextReport]_vars

\* POST /attack/start with any body and any method.
NextLegacy ==
    \E body \in LegacyBodies, method \in ATTACK_REGISTRY \cup {"style"},
       stored \in BOOLEAN :
        CreateAttack(body, method, stored)

SpecLegacy == Init /\ [][NextLegacy]_vars

\* The scheduler's loop, the threads it starts for one task of any type, the
\* clock, and POST /task/<id>/cancel arriving at any moment.
InitExecAnyType ==
    /\ InitTasks /\ InitAuth /\ InitCat /\ InitAtk /\ InitReg /\ InitRep /\ InitLegacy
    /\ \E task_type \in TaskTypes : exec = [IdleExec EXCEPT !.task_type = task_type]

NextExec ==
    \/ Tick
    \/ \E t \in OneRow : CreateTask(t, PriorityAttack)
    \/ \E t \in OneRow, r \in Reasons : ApiCancelTask(t, r)
    \/ Run
    \/ \E th \in ThreadIds : ExecuteTask(th)

SpecExec == InitExecAnyType /\ [][NextExec]_vars

\* The same for one attack task, with PUT /task/<id>/status putting the row
\* back in the queue.
Requeued == {"pending"}

NextRequeue ==
    \/ Tick
    \/ \E t \in OneRow : CreateTask(t, PriorityAttack)
    \/ \E t \in OneRow, r \in Reasons : ApiCancelTask(t, r)
    \/ \E t \in OneRow, s \in Requeued : UpdateTaskStatus(t, s, NoResult)
    \/ Run
    \/ \E th \in ThreadIds : AttackThread(th)

SpecRequeue == Init /\ [][NextRequeue]_vars

\* One task created by POST /attack/start of api/new_attack.py, its request
\* thread and the scheduler.
NextRequest ==
    \/ Tick
    \/ \E t \in OneRow : NewAttackCreateAttack(t)
    \/ ExecuteAttackAsync
    \/ Run
    \/ \E th \in ThreadIds : AttackThread(th)

SpecRequest == Init /\ [][NextRequest]_vars

\* _check_timeout_tasks and _cleanup_completed_threads as functions of the
\* in-flight map and the table.  An entry outlives its thread when line 176
\* registers it after the thread has ended; the row of an entry has any
\* status (PUT /task/<id>/status, the cancel of api/new_attack.py, which
\* leaves the map alone) and is gone once cleanup_old_tasks has deleted it.
SweepRows == {NoRow} \cup {DrawnRow(PriorityAttack, 1, s) : s \in TASK_STATUSES}

SweepTasks == TaskIds \cap ThreadIds

InitSweep ==
    /\ now = MaxTime
    /\ sched = IdleSched
    /\ lastOp = NoOp
    /\ InitAuth /\ InitCat /\ InitAtk /\ InitReg /\ InitRep /\ InitLegacy
    /\ tasks \in [TaskIds -> SweepRows]
    /\ active_tasks \in SUBSET SweepTasks
    /\ \E alive \in SUBSET active_tasks, start \in [TaskIds -> 1..MaxTime],
          loop \in {"timeout", "reap"} :
          /\ \A t \in TaskIds \ active_tasks : start[t] = 1
          /\ exec = [IdleExec EXCEPT
                        !.loop = loop,
                        !.threads = [th \in ThreadIds |->
                                        IF th \in active_tasks
                                        THEN [UnbornThread EXCEPT
                                                 !.pc = IF th \in alive THEN "write"
                                                        ELSE "dead",
                                                 !.task = th,
                                                 !.k = 1]
                                        ELSE UnbornThread],
                        !.entry = [t \in TaskIds |->
                                      IF t \in active_tasks
                                      THEN [thread |-> t, start_time |-> start[t]]
                                      ELSE NoEntry]]

NextSweep ==
    \/ CheckTimeoutTasks
    \/ CleanupCompletedThreads

SpecSweep == InitSweep /\ [][NextSweep]_vars

----------------------------------------------------------------------------
(* Properties *)

Rank(status) ==
    CASE status = "pending" -> 0
      [] status = "queued" -> 1
      [] status = "running" -> 2
      [] OTHER -> 3

CancelOps == {"cancel_task", "scheduler_cancel_task", "api_cancel_task",
              "new_attack_cancel_task"}

\* The step is a call of one of the cancel entry points on task t.
CancelStep(t) ==
    /\ lastOp'.op \in CancelOps
    /\ lastOp'.id = t
    /\ (lastOp' # lastOp \/ tasks' # tasks)

\* C1: every row's status only moves forward along pending -> queued ->
\* running -> {completed, failed, cancelled}, and a row that is completed,
\* failed or cancelled keeps its status for ever.
C1_StatusOnlyAdvances ==
    [][\A t \in TaskIds :
          tasks[t].exists =>
              /\ Rank(tasks'[t].status) >= Rank(tasks[t].status)
              /\ (tasks[t].status \in Terminal => tasks'[t].status = tasks[t].status)]_vars

\* C2: a cancel of a task that was created and never picked up leaves it
\* cancelled, with result.error the reason given to the cancel.
C2_CancelPendingRecordsReason ==
    [][\A t \in TaskIds :
          (/\ CancelStep(t)
           /\ tasks[t].exists
           /\ tasks[t].status = "pending"
           /\ tasks[t].queued_at = NoTime
           /\ tasks[t].started_at = NoTime)
          => /\ tasks'[t].status = "cancelled"
             /\ tasks'[t].result.present
             /\ tasks'[t].result.error = lastOp'.arg]_vars

\* C3: a cancel of a completed task answers success and leaves the result
\* and the metrics recorded at completion as they were.
C3_CancelCompletedKeepsResult ==
    [][\A t \in TaskIds :
          (CancelStep(t) /\ tasks[t].exists /\ tasks[t].status = "completed")
          => /\ lastOp'.ret
             /\ tasks'[t].result = tasks[t].result
             /\ tasks'[t].metrics = tasks[t].metrics]_vars

\* C4: after TaskService.cancel_task on an existing row, whatever its status
\* was, the call has answered True, the row is cancelled and its progress
\* message is the reason given (the default text when none was given); the
\* same call made again, now or later, leaves the row as it is.
C4_CancelTaskIdempotent ==
    (lastOp.op = "cancel_task" /\ tasks[lastOp.id].exists)
    => LET row == tasks[lastOp.id]
       IN  /\ lastOp.ret
           /\ row.status = "cancelled"
           /\ row.progress_message =
                  (IF lastOp.arg \in Reasons THEN lastOp.arg ELSE MsgCancelled)
           /\ \A t2 \in now..MaxTime : cancel_task(row, lastOp.arg, t2) = row

\* C4 witness: cancel_task with a reason has just cancelled, at a later time,
\* a row that had completed with a result.
C4_Witness ==
    /\ lastOp.op = "cancel_task"
    /\ lastOp.arg \in Reasons
    /\ tasks[lastOp.id].status = "cancelled"
    /\ tasks[lastOp.id].result = OkResult
    /\ tasks[lastOp.id].progress = 100
    /\ tasks[lastOp.id].completed_at # NoTime
    /\ tasks[lastOp.id].completed_at < now

\* C5: with no other caller at work, get_next_pending_task returns a pending
\* row whenever there is one, now queued, and no row still pending has a
\* higher priority, or the same priority and an earlier creation time; so of
\* a pending priority-8 row and a pending priority-5 row it returns the
\* priority-8 row, whichever was created first.
C5_ReturnsHighestPriorityPending ==
    sched.pc = "returned"
    => IF sched.from = "pending"
       THEN /\ sched.ret \in TaskIds
            /\ tasks[sched.ret].status = "queued"
            /\ \A u \in TaskIds :
                  (tasks[u].exists /\ tasks[u].status = "pending")
                  => \/ tasks[u].priority < tasks[sched.ret].priority
                     \/ /\ tasks[u].priority = tasks[sched.ret].priority
                        /\ tasks[u].created_at >= tasks[sched.ret].created_at
       ELSE \A u \in TaskIds : ~(tasks[u].exists /\ tasks[u].status = "pending")

\* C5 witness: the call has returned the priority-8 row while the priority-5
\* row, created earlier, is still pending.
C5_Witness ==
    /\ sched.pc = "returned"
    /\ sched.ret \in TaskIds
    /\ tasks[sched.ret].priority = PriorityAttack
    /\ \E u \in TaskIds :
          /\ tasks[u].exists
          /\ tasks[u].status = "pending"
          /\ tasks[u].priority = PriorityFinetune
          /\ tasks[u].created_at < tasks[sched.ret].created_at

\* C6: no step of get_next_pending_task turns a completed, failed or
\* cancelled row into a queued one, and the row it returns is not completed,
\* failed or cancelled, whatever other threads do meanwhile.
C6_NeverRevivesFinishedRow ==
    [][(sched'.pc # sched.pc)
       => /\ \A t \in TaskIds :
                ~(tasks[t].status \in Terminal /\ tasks'[t].status = "queued")
          /\ (sched'.pc = "returned" /\ sched'.ret # NoTask
              => tasks'[sched'.ret].status \notin Terminal)]_vars

\* C7: mark_task_failed on a row whose retry_count is below max_retries
\* leaves it pending with retry_count one higher; on a row whose retry_count
\* equals max_retries it leaves it failed with retry_count as it was.
C7_MarkTaskFailedRetries ==
    lastOp.op = "mark_task_failed"
    => LET row == tasks[lastOp.id]
       IN  /\ lastOp.n <= MaxRetries
           /\ (lastOp.n < MaxRetries
               => row.status = "pending" /\ row.retry_count = lastOp.n + 1)
           /\ (lastOp.n = MaxRetries
               => row.status = "failed" /\ row.retry_count = lastOp.n)

\* C7 witness: mark_task_failed has just run on a row whose retries were
\* used up.
C7_Witness ==
    /\ lastOp.op = "mark_task_failed"
    /\ lastOp.n = MaxRetries
    /\ tasks[lastOp.id].status = "failed"

\* C8: started_at and completed_at, once set, keep their value, and when
\* both are set execution_time is completed_at minus started_at.
C8_TimestampsOnceAndExecutionTime ==
    [][\A t \in TaskIds :
          /\ (tasks[t].started_at # NoTime
              => tasks'[t].started_at = tasks[t].started_at)
          /\ (tasks[t].completed_at # NoTime
              => tasks'[t].completed_at = tasks[t].completed_at)
          /\ ((tasks'[t].started_at # NoTime /\ tasks'[t].completed_at # NoTime)
              => tasks'[t].execution_time
                     = tasks'[t].completed_at - tasks'[t].started_at)]_vars

\* C9: a login made while the lock of the 5th consecutive failed login is
\* in force (30 minutes not yet over, no admin reset) is answered 401,
\* whatever the password.
C9_LockedAccountRejected ==
    (resp.op = "login" /\ resp.locked) => resp.code = 401

\* C10: the 5th consecutive failed login is answered 401 with the
\* account-locked message and leaves locked_until 30 minutes after it.
C10_FifthFailureLocks ==
    (resp.op = "login" /\ resp.nth = LockThreshold)
    => /\ resp.code = 401
       /\ resp.msg = "locked_30_minutes"
       /\ users[resp.user].locked_until = resp.at + LockMinutes

\* C14: no step removes the users row with id 1, and a step that removes a
\* users row is a delete-user request of an admin other than that row's user.
C14_ProtectedAccountsSurvive ==
    [][\A u \in AccountIds :
          (accounts[u].exists /\ ~accounts'[u].exists)
          => /\ u # SuperAdminId
             /\ catResp'.op = "delete_user"
             /\ catResp'.target = u
             /\ catResp'.caller # u
             /\ is_admin(accounts[catResp'.caller])]_vars

\* C14 witness: an admin other than user 1 asked to delete their own account
\* and was refused, and a request to delete user 1 is refused too.
C14_Witness ==
    /\ catResp.op = "delete_user"
    /\ catResp.caller # SuperAdminId
    /\ catResp.target = catResp.caller
    /\ catResp.code = 403
    /\ accounts[catResp.caller].exists
    /\ is_admin(accounts[catResp.caller])
    /\ delete_user_code(catResp.caller, SuperAdminId) = 403

\* The caller of the last model / dataset / user request is an admin.
ByAdmin(response) ==
    /\ response.caller \in AccountIds
    /\ accounts[response.caller].exists
    /\ is_admin(accounts[response.caller])

\* C11: a request to delete a model that a pending, queued or running task
\* references, through either delete handler and by a caller allowed to
\* delete the model, is answered 409 and the model row stays.
C11_DeleteOfModelInUseConflicts ==
    (/\ catResp.op \in {"admin_delete_model", "api_delete_model"}
     /\ catResp.active
     /\ catResp.code \notin {401, 403})
    => /\ catResp.code = 409
       /\ models[catResp.target].exists

\* C12: a step that changes or deletes a model row whose is_predefined flag
\* is set is the request of an admin.
C12_PredefinedModelOnlyByAdmin ==
    [][\A m \in ModelIds :
          (models[m].exists /\ models[m].is_predefined /\ models'[m] # models[m])
          => ByAdmin(catResp')]_vars

\* C13: a step of an update request that changes the is_predefined flag or
\* the source of a model row is the request of an admin.
C13_FlagAndSourceOnlyByAdmin ==
    [][\A m \in ModelIds :
          (/\ models[m].exists
           /\ models'[m].exists
           /\ catResp'.op = "update_model"
           /\ \/ models'[m].is_predefined # models[m].is_predefined
              \/ models'[m].model_source # models[m].model_source)
          => ByAdmin(catResp')]_vars

\* C15: no two model rows have the same name.
C15_ModelNamesUnique ==
    \A m1, m2 \in ModelIds :
        (m1 # m2 /\ models[m1].exists /\ models[m2].exists)
        => models[m1].model_name # models[m2].model_name

\* C16: a step that inserts a model or dataset row is the commit of an
\* upload whose extraction reported success, answered 201; so an upload
\* answered with an error has inserted no row.
C16_RowOnlyAfterExtraction ==
    [][(models' # models \/ datasets' # datasets)
       => /\ catResp'.code = 201
          /\ catResp'.op \in {"upload_model", "upload_dataset"}
          /\ \E c \in ClientIds :
                /\ inflight[c].pc = "insert"
                /\ inflight[c].op = catResp'.op
                /\ inflight[c].extract
                /\ inflight'[c].pc = "idle"]_vars

\* C16 witness: a model upload has inserted its row, and a dataset upload
\* whose extraction failed was answered 400 with the datasets table empty.
C16_Witness ==
    /\ catResp.op = "upload_dataset"
    /\ catResp.code = 400
    /\ \A d \in DatasetIds : ~datasets[d].used
    /\ \E m \in ModelIds : models[m].exists /\ models[m].model_source = "user"
    /\ \A c \in ClientIds : inflight[c].pc = "idle"

\* C17: a cleanup_old_tasks call with keep_failed true, whatever its type
\* and status filters, deletes no failed row, no running row and no row
\* created within the last `days`.
C17_CleanupKeepsFailedAndRunning ==
    [][(lastOp'.op = "cleanup_old_tasks" /\ lastOp'.ret)
       => \A t \in TaskIds :
             (tasks[t].exists /\ ~tasks'[t].exists)
             => /\ tasks[t].status \notin {"failed", "running"}
                /\ tasks[t].created_at < now - lastOp'.n]_vars

ResultKeys ==
    {"success", "original_code", "adversarial_code", "replaced_identifiers",
     "query_times", "time_cost", "error"}

\* The dict an attacker's attack() has returned is in atk.result.
AttackerReturned ==
    \/ atk.pc = "returned"
    \/ atk.pc = "done" /\ atk.via = "attacker"

\* C18: every dict returned by attack() of ITGen, ALERT, Beam, MHM and RNNS,
\* on success, on failure and from the exception handler, has all of the
\* keys success, original_code, adversarial_code, replaced_identifiers,
\* query_times, time_cost and error.
C18_ResultHasAllKeys ==
    AttackerReturned => ResultKeys \subseteq DOMAIN atk.result

\* An attacker has returned from its exception handler.
C18_Witness ==
    /\ AttackerReturned
    /\ atk.method = "itgen"
    /\ atk.result.error = "no_attribute_itgen_attack"

\* C19: a result with success false, returned by an attacker or by
\* AttackService.attack, has adversarial_code None or absent.
C19_NoAdversarialCodeOnFailure ==
    (atk.pc \in {"returned", "done"} /\ ~atk.result.success)
    => \/ "adversarial_code" \notin DOMAIN atk.result
       \/ atk.result.adversarial_code = NoMsg

\* AttackService.attack has returned the failed result of a search.
C19_Witness ==
    /\ atk.pc = "done"
    /\ atk.via = "service"
    /\ atk.model_calls > 1
    /\ ~atk.result.success

\* The model was asked and its prediction is not the true label.
Mispredicted == atk.checked /\ atk.predicted # atk.true_label

\* C20: when the model's prediction for the original code is not the true
\* label, attack() of ITGen, ALERT and Beam returns after that one model
\* call with query_times 0 and the mismatch error, and no other return of
\* theirs carries that error.
C20_MismatchReturnsAtOnce ==
    (AttackerReturned /\ atk.method \in SearchMethods)
    => /\ Mispredicted
          => /\ ~atk.result.success
             /\ atk.result.query_times = 0
             /\ atk.model_calls = 1
             /\ atk.result.error = "prediction_differs_from_true_label"
       /\ ~Mispredicted
          => atk.result.error # "prediction_differs_from_true_label"

\* Beam has returned for a mispredicted original.
C20_Witness ==
    /\ AttackerReturned
    /\ atk.method = "beam"
    /\ Mispredicted

\* C21: register answers 400 to a username of 2 characters; it answers 201
\* and inserts the row for a valid request with a username of 3 characters
\* whose username and email are in no row when it writes; it answers 409 to
\* a valid request whose email its query finds registered.
C21_RegisterBoundaries ==
    /\ (reg.resp.at # "none" /\ Len(reg.resp.username) = 2)
       => reg.resp.code = 400
    /\ (reg.resp.valid /\ Len(reg.resp.username) = 3
        /\ ~reg.resp.username_registered /\ ~reg.resp.email_registered)
       => /\ reg.resp.code = 201
          /\ [username |-> reg.resp.username, email |-> reg.resp.email]
                \in reg.table
    /\ (reg.resp.valid /\ reg.resp.at = "query" /\ reg.resp.email_registered)
       => reg.resp.code = 409

\* A 3-character username was registered, and a later valid request with a
\* new username and the same email was refused.
C21_Witness ==
    /\ reg.resp.code = 409
    /\ reg.resp.valid
    /\ ~reg.resp.username_registered
    /\ reg.resp.email_registered
    /\ \E row \in reg.table : Len(row.username) = 3 /\ row.email = reg.resp.email

\* The files of the claim: 10 itgen lines, 4 of them successful and 6
\* failed, and 5 alert lines, 1 successful and 4 failed.
C22_Case ==
    /\ report.stage = "reported"
    /\ report.out.success
    /\ total_samples(report.results["itgen"]) = 10
    /\ successful_attacks(report.results["itgen"]) = 4
    /\ failed_attacks(report.results["itgen"]) = 6
    /\ total_samples(report.results["alert"]) = 5
    /\ successful_attacks(report.results["alert"]) = 1
    /\ failed_attacks(report.results["alert"]) = 4

\* C22: for those files the report gives ASR 40.0 for itgen, 20.0 for alert
\* and 33.33 overall, and its overall AMI and ART are, to the report's two
\* decimals, the average of the two methods' AMI and ART weighted 10 to 5.
C22_ReportFigures ==
    C22_Case =>
        LET out == report.out
            itgen == out.method_metrics["itgen"]
            alert == out.method_metrics["alert"]
            Near(x, sum) == 2 * (15 * x - sum) <= 15 /\ 2 * (sum - 15 * x) <= 15
        IN  /\ itgen.asr = 4000
            /\ alert.asr = 2000
            /\ out.asr = 3333
            /\ Near(out.ami, 10 * itgen.ami + 5 * alert.ami)
            /\ Near(out.art, 10 * itgen.art + 5 * alert.art)

\* A report of the claim's files whose two methods differ in AMI.
C22_Witness ==
    /\ C22_Case
    /\ report.out.method_metrics["itgen"].ami
          # report.out.method_metrics["alert"].ami

\* C23: every failure in handling a request to POST /attack/start that has
\* passed validation is answered 200 with a new task id and the demo-mode
\* note.
C23_FailureAnsweredAsDemo ==
    (legacy.resp.validated /\ legacy.resp.failed)
    => /\ legacy.resp.code = 200
       /\ legacy.resp.task_id = legacy.uuids
       /\ legacy.resp.note = "demo_mode"

\* C24: a thread writes `running` at the start of _execute_task only on a
\* row that is pending or queued at the moment of the write, so that a task
\* cancelled before the write is never moved to running.
C24_RunningOnlyFromQueue ==
    [][\A th \in ThreadIds :
          (exec.threads[th].pc = "write_running" /\ exec'.threads[th].pc # "write_running")
              => tasks[exec.threads[th].task].status \in {"pending", "queued"}]_vars

\* C25: the terminal write of a thread (completed or failed) on a row that
\* is cancelled leaves the row as the cancellation wrote it.
C25_TerminalWriteLeavesCancelled ==
    [][\A th \in ThreadIds :
          (/\ exec.threads[th].pc \in {"complete", "inner_except", "except", "write_unknown"}
           /\ exec'.threads[th].pc # exec.threads[th].pc
           /\ tasks[exec.threads[th].task].status = "cancelled")
              => tasks'[exec.threads[th].task] = tasks[exec.threads[th].task]]_vars

\* C26: once the row has been cancelled from outside, the next cancellation
\* check of the routine stops it: no check passes in a routine one of whose
\* milestone writes has found the row cancelled.
C26_CheckAfterCancelStops ==
    [][\A th \in ThreadIds :
          (/\ exec.threads[th].pc \in {"check", "final_check"}
           /\ exec'.threads[th].pc \in {"write", "complete", "read_file"})
              => ~exec.threads[th].overwrote]_vars

\* C27: the sweep of _check_timeout_tasks sets the row of every in-flight
\* task older than task_timeout to failed with the timeout message and takes
\* its entry out of the map, and leaves every younger in-flight task alone.
C27_SweepFailsAndRemoves ==
    [][(exec.loop = "timeout" /\ exec'.loop = "next")
          => \A t \in active_tasks :
                IF elapsed_time(t) > task_timeout
                THEN /\ tasks'[t].status = "failed"
                     /\ tasks'[t].progress_message = MsgTimeout
                     /\ t \notin active_tasks'
                ELSE /\ tasks'[t] = tasks[t]
                     /\ t \in active_tasks']_vars

\* C28: the reap of _cleanup_completed_threads takes every entry
\* of a dead thread out of the map, and sets its row to failed when the row
\* is running.
C28_ReapRemovesEveryDeadEntry ==
    [][(exec.loop = "reap" /\ exec'.loop = "timeout")
          => \A t \in active_tasks :
                ~is_alive(exec.entry[t].thread)
                    => /\ t \notin active_tasks'
                       /\ (tasks[t].exists /\ tasks[t].status = "running")
                              => tasks'[t].status = "failed"]_vars

\* C29: the row of a task whose thread has raised and ended is failed; it is
\* not pending, queued, running or completed (a cancel that arrives after
\* the handler's write leaves it cancelled).
C29_RaisedThreadLeavesFailed ==
    \A th \in ThreadIds :
        (exec.threads[th].raised /\ exec.threads[th].pc \in {"finally", "dead"})
            => \/ tasks[exec.threads[th].task].status = "failed"
               \/ /\ tasks[exec.threads[th].task].status = "cancelled"
                  /\ tasks[exec.threads[th].task].progress_message \in Reasons

\* A thread has raised and ended, and the row is failed.
C29_Witness ==
    \E th \in ThreadIds :
        /\ exec.threads[th].raised
        /\ exec.threads[th].pc = "dead"
        /\ tasks[exec.threads[th].task].status = "failed"

\* C30: no two live threads execute the same task.
C30_OneThreadPerTask ==
    \A t \in TaskIds : Cardinality(AliveThreadsOf(t)) <= 1

\* C32: retry_count never exceeds max_retries and never goes down, and every
\* mark_task_failed that returns a row to pending raises it by one, so that
\* failure handling returns a row to pending at most max_retries times.
C32_RetriesBounded ==
    [][\A t \in TaskIds :
          /\ tasks'[t].retry_count <= MaxRetries
          /\ (tasks[t].exists /\ tasks'[t].exists
              => tasks'[t].retry_count >= tasks[t].retry_count)
          /\ (lastOp'.op = "mark_task_failed" /\ lastOp'.id = t /\ lastOp' # lastOp
              /\ tasks'[t].status = "pending"
              => tasks'[t].retry_count = tasks[t].retry_count + 1)]_vars

\* mark_task_failed has just returned a row to pending for the last time.
C32_Witness ==
    /\ lastOp.op = "mark_task_failed"
    /\ lastOp.n = MaxRetries - 1
    /\ tasks[lastOp.id].status = "pending"
    /\ tasks[lastOp.id].retry_count = MaxRetries

\* C36: a task of a type create_task accepts is dispatched to an execution
\* routine: its thread never takes the branch of the unknown task type.
C36_EveryTypeHasRoutine ==
    \A th \in ThreadIds :
        exec.task_type \in TaskTypes => exec.threads[th].pc # "write_unknown"

\* A thread takes the completed write of its routine.
Completes(th) ==
    /\ exec.threads[th].pc = "complete"
    /\ exec'.threads[th].pc = "finally"

\* C33: the scheduler sets a single_attack or attack task to completed only
\* with the result AttackService.attack returned for it.
C33_CompletedByAttackService ==
    [][\A th \in ThreadIds :
          (Completes(th) /\ exec.task_type \in {"single_attack", "attack"})
              => result_source(exec.task_type) = "attack_service"]_vars

\* C34: a finetune task stores a success result only when a training step
\* ran.
C34_FinetuneCompletesAfterTraining ==
    [][\A th \in ThreadIds :
          (/\ Completes(th)
           /\ exec.task_type = "finetune"
           /\ tasks'[exec.threads[th].task].status = "completed"
           /\ tasks'[exec.threads[th].task].result.success)
              => result_source(exec.task_type) = "training_step"]_vars

\* pending -> queued -> running -> terminal
status_rank(status) ==
    IF status = "pending" THEN 0
    ELSE IF status = "queued" THEN 1
    ELSE IF status = "running" THEN 2
    ELSE 3

\* A thread writes to the row of its task.
ThreadWrites(th) ==
    /\ exec'.threads[th] # exec.threads[th]
    /\ exec.threads[th].task \in TaskIds
    /\ tasks'[exec.threads[th].task] # tasks[exec.threads[th].task]

\* C35: no write of a thread replaces the status of the row by an earlier
\* one, and a write that follows a write of the same thread does not lower
\* the progress.
C35_ThreadNeverRegresses ==
    [][\A th \in ThreadIds :
          ThreadWrites(th)
              => LET row == tasks[exec.threads[th].task]
                     new == tasks'[exec.threads[th].task]
                 IN  /\ status_rank(new.status) >= status_rank(row.status)
                     /\ (row.progress_message \in {MsgStart, MsgProgress}
                         => new.progress >= row.progress)]_vars

\* C40: every record read is counted as successful or as failed, so for
\* every method the successful and the failed attacks add up to the total
\* samples.
C40_SuccessfulPlusFailedIsTotal ==
    report.stage # "read" =>
        \A m \in ReportMethods :
            report.method_metrics[m].successful_attacks
                + report.method_metrics[m].failed_attacks
                    = report.method_metrics[m].total_samples

\* The model predicts the true label for the input of the call and another
\* label for the candidate the substitutes yield.
CandidateFlips ==
    /\ atk.code1 # ""
    /\ atk.classifier[atk.code1] = atk.true_label
    /\ atk.classifier[Candidate] # atk.true_label

\* C38: attack() of ITGen, called with a non-empty substitute dictionary on
\* an input the model classifies as the true label while it predicts another
\* label for the candidate, returns success = true with the candidate as
\* adversarial_code, having asked the model about no further candidate.
C38_FlipReturnsCandidate ==
    (/\ atk.pc = "done"
     /\ atk.entry = "attack"
     /\ atk.searching
     /\ atk.max_queries > 0
     /\ CandidateFlips)
        => /\ atk.result.success
           /\ atk.result.adversarial_code = Candidate
           /\ atk.result.query_times = 1

\* C39: the search of ITGen asks the model at most max_queries times, and
\* when it ends without a prediction that differs from the true label,
\* attack() returns success = false, the original code and an empty
\* replacement map.
C39_BoundedSearchFailsUnchanged ==
    /\ atk.queries <= atk.max_queries
    /\ (/\ atk.pc = "done"
        /\ atk.entry = "attack"
        /\ atk.searching
        /\ \A program \in Programs : atk.classifier[program] = atk.true_label)
           => /\ ~atk.result.success
              /\ atk.result.original_code = atk.code1
              /\ atk.result.replaced_identifiers = EmptyMap

C31_OneExecutorPerTask ==
    \A th \in ThreadIds :
        (/\ exec.request.pc # "unborn"
         /\ exec.threads[th].task = exec.request.task)
            => exec.threads[th].k = 0

====
